---- MODULE Spec2Model ----
(***************************************************************************)
(* The mcpx connection daemon (src/src/daemon.ts): the ConnectionPool, the *)
(* request handlers of runDaemonServer, the idle-eviction timer and the    *)
(* stopDaemon client.  The daemon runs on one event loop: a handler runs   *)
(* without interruption up to its next await, and between two awaits any   *)
(* other handler or timer callback may run.  One action below is one such  *)
(* uninterrupted stretch of code.                                          *)
(***************************************************************************)
EXTENDS Integers, Sequences, FiniteSets, Bags, TLC

\* ------------------------------------------------------------- bounds
\* Requests the daemon may be handling at the same moment.
MaxSlots == 2
\* Sessions connectToServer may open in one run.
MaxSessions == 2
\* The clock stops here; one unit is one period of the idle-check timer.
MaxTime == 2
\* startDaemon invocations in one run.
MaxStarters == 2
\* Servers one list or grep runs over.
MaxItems == 3
\* MCP_CONCURRENCY at most.
MaxConcurrency == 3
\* MCP_DAEMON_IDLE_MS, in periods of the idle-check timer.
IdleTimeoutMs == 1

Names == {"a", "b"}
Slots == 1 .. MaxSlots

\* ------------------------------------------------- configs and their hash
\* The values of a config, as JSON has them: strings, arrays, and objects
\* (the key/value pairs in the order the keys were written).
Str(s) == [t |-> "str", s |-> s, items |-> << >>]
Arr(items) == [t |-> "arr", s |-> "", items |-> items]
Obj(pairs) == [t |-> "obj", s |-> "", items |-> pairs]

\* A server config is an object: a sequence of key/value pairs in the order
\* its keys were written.
Cfg(k1, v1, k2, v2) == << [k |-> k1, v |-> v1], [k |-> k2, v |-> v2] >>

\* Two spellings of one config (keys reordered) and a config with other args.
Configs ==
  { Cfg("command", Str("echo"), "args", Arr(<< Str("x") >>)),
    Cfg("args", Arr(<< Str("x") >>), "command", Str("echo")),
    Cfg("command", Str("echo"), "args", Arr(<< Str("y") >>)) }

\* Two configs that differ in a value.
TwoConfigs ==
  { Cfg("command", Str("echo"), "args", Arr(<< Str("x") >>)),
    Cfg("command", Str("echo"), "args", Arr(<< Str("y") >>)) }

\* Position of a key in the order of Array.prototype.sort on strings
\* (by code unit: capitals before small letters).
KeyRank(k) ==
  CASE k = "A" -> 1
    [] k = "B" -> 2
    [] k = "args" -> 3
    [] k = "command" -> 4
    [] k = "env" -> 5
    [] OTHER -> 6

RECURSIVE InsertKey(_, _)
InsertKey(p, s) ==
  IF s = << >> THEN << p >>
  ELSE IF KeyRank(p.k) <= KeyRank(Head(s).k) THEN << p >> \o s
  ELSE << Head(s) >> \o InsertKey(p, Tail(s))

\* sortObjectKeys on the pairs of an object: the same keys in sorted order,
\* each with its value sorted in turn.
RECURSIVE sortObjectKeys(_)
RECURSIVE SortValue(_)
sortObjectKeys(obj) ==
  IF obj = << >> THEN << >>
  ELSE InsertKey([k |-> Head(obj).k, v |-> SortValue(Head(obj).v)],
                 sortObjectKeys(Tail(obj)))

\* sortObjectKeys on a value: a string as it is, an array element by element,
\* an object by its pairs.
SortValue(v) ==
  CASE v.t = "str" -> v
    [] v.t = "arr" -> Arr([i \in 1 .. Len(v.items) |-> SortValue(v.items[i])])
    [] v.t = "obj" -> Obj(sortObjectKeys(v.items))

\* JSON.stringify, as the sequence of the tokens of the text.
RECURSIVE Stringify(_)
RECURSIVE JoinValues(_)
RECURSIVE JoinPairs(_)
Stringify(v) ==
  CASE v.t = "str" -> << v.s >>
    [] v.t = "arr" -> << "[" >> \o JoinValues(v.items) \o << "]" >>
    [] v.t = "obj" -> << "{" >> \o JoinPairs(v.items) \o << "}" >>

JoinValues(items) ==
  IF items = << >> THEN << >>
  ELSE Stringify(Head(items)) \o
       (IF Tail(items) = << >> THEN << >> ELSE << "," >> \o JoinValues(Tail(items)))

JoinPairs(pairs) ==
  IF pairs = << >> THEN << >>
  ELSE << Head(pairs).k, ":" >> \o Stringify(Head(pairs).v) \o
       (IF Tail(pairs) = << >> THEN << >> ELSE << "," >> \o JoinPairs(Tail(pairs)))

\* The hex digits of a SHA-256 digest, and those computeConfigHash keeps.
Sha256HexLength == 64
HashLength == 16

\* hasher.digest('hex') of a text.  The digest is taken to be free of
\* collisions, so it is given by the text it is the digest of.
Sha256Hex(text) == [of |-> text, length |-> Sha256HexLength]

\* String.prototype.substring(0, n) of a digest.
Substring(digest, n) ==
  [of |-> digest.of, length |-> IF n < digest.length THEN n ELSE digest.length]

\* The configs whose hashes are compared: args is an array of one or two
\* strings or of one object, env an object of two keys written in either
\* order, and the two keys of the config come in either order.
Scalars == {Str("x"), Str("y")}

Pair(k, v) == [k |-> k, v |-> v]

EnvObjects ==
  UNION {{Obj(<< Pair("A", a), Pair("B", b) >>),
          Obj(<< Pair("B", b), Pair("A", a) >>)} : a \in Scalars, b \in Scalars}

ArgsArrays ==
  {Arr(<< a >>) : a \in Scalars}
    \cup {Arr(<< a, b >>) : a \in Scalars, b \in Scalars}
    \cup {Arr(<< Obj(<< Pair("A", Str("x")), Pair("B", Str("y")) >>) >>),
          Arr(<< Obj(<< Pair("B", Str("y")), Pair("A", Str("x")) >>) >>)}

HashConfigs ==
  UNION {{Cfg("args", x, "env", e), Cfg("env", e, "args", x)} :
           x \in ArgsArrays, e \in EnvObjects}

\* Every config of the model.
ConfigUniverse == Configs \cup HashConfigs

HashOf_Unsorted(config) ==
  Substring(Sha256Hex(Stringify(Obj(config))), HashLength)

\* The body of computeConfigHash: the first 16 hex digits of the digest of
\* the JSON text of the key-sorted config.
HashOf(config) ==
  Substring(Sha256Hex(Stringify(SortValue(Obj(config)))), HashLength)

\* computeConfigHash is deterministic: its values, one per config.
HashTable == [c \in ConfigUniverse |-> HashOf(c)]

computeConfigHash(config) == HashTable[config]

\* ------------------------------------------------------------- state
VARIABLES
  pool,       \* ConnectionPool.pool: server name -> PoolEntry
  sessions,   \* the sessions connectToServer has opened, by number; a closed
              \* session nothing refers to any more is forgotten
  req,        \* the handler of each request slot: where it is, its locals
  bg,         \* release() calls the idle timer started and nobody awaits
  now,        \* Date.now()
  idleTimer,  \* ConnectionPool.idleTimer is set
  timerDue,   \* the idle-check interval has elapsed, the callback is due
  raised,     \* an error escaped as an unhandled rejection
  daemonUp,   \* the daemon process is alive
  exitArmed,  \* shutdown's setTimeout(exit, 100) is pending
  socket,     \* the socket file exists
  stop,       \* the stopDaemon client process
  granted,    \* what acquire has returned: server, hash, session
  ret,        \* what acquire returned in the step just taken, if it did
  last,       \* the reply a handler produced in the step just taken, if any
  starter,    \* the startDaemon client processes: where each is
  spawned,    \* daemon processes spawned that have not yet bound the socket
  overrun,    \* times the socket file of a live daemon was deleted
  run,        \* a run of processWithConcurrency (list, grep)
  retry,      \* a run of withRetry
  call,       \* the callCommand process (mcpx call)
  applied     \* the function applied in the step just taken, and its value

\* The state of the daemon and of the stopDaemon client.
daemonVars ==
  << pool, sessions, req, bg, now, idleTimer, timerDue, raised, daemonUp,
     exitArmed, socket, stop, granted, ret, last >>

\* The call command and the functions applied.
toolVars == << call, applied >>

\* The state of the other CLI processes.
cliVars == << starter, spawned, overrun, run, retry, toolVars >>

vars == << daemonVars, cliVars >>

NoRes == [connection |-> 0, alreadyConnected |-> FALSE, reconnected |-> FALSE]
NoRet == [server |-> "none"]
NoLast == [method |-> "none"]

IdleSlot ==
  [ pc |-> "idle", method |-> "none", server |-> "none", config |-> << >>,
    old |-> 0, names |-> {}, closing |-> {}, res |-> NoRes, sizeBefore |-> 0 ]

IdleStop == [pc |-> "idle", force |-> FALSE, servers |-> {}, exitCode |-> 0]

Starters == 1 .. MaxStarters

\* No list or grep is running.
IdleRun == [pc |-> "idle"]

\* No withRetry is running.
IdleRetry == [pc |-> "idle"]

\* No mcpx call is running.
IdleCall == [pc |-> "idle"]

\* No function has just been applied.
NoApply == [fn |-> "none"]

\* The daemon has started (runDaemonServer has returned): the pool is empty,
\* its idle timer is set, the socket is bound.  No other process is running.
Init ==
  /\ pool = << >>
  /\ sessions = << >>
  /\ req = [r \in Slots |-> IdleSlot]
  /\ bg = EmptyBag
  /\ now = 0
  /\ idleTimer = TRUE
  /\ timerDue = FALSE
  /\ raised = FALSE
  /\ daemonUp = TRUE
  /\ exitArmed = FALSE
  /\ socket = TRUE
  /\ stop = IdleStop
  /\ granted = {}
  /\ ret = NoRet
  /\ last = NoLast
  /\ starter = [i \in Starters |-> "idle"]
  /\ spawned = 0
  /\ overrun = 0
  /\ run = IdleRun
  /\ retry = IdleRetry
  /\ call = IdleCall
  /\ applied = NoApply

\* ------------------------------------------------------------- helpers
\* A mutant of PoolDelete: the entry is left in the map.
PoolDelete_Keep(p, n) == p

\* Map.clear in the place of Map.delete.
PoolDelete_Clear(p, n) == << >>

\* Map.delete
PoolDelete(p, n) == [m \in DOMAIN p \ {n} |-> p[m]]

\* Map.set
PoolSet(p, n, e) == [m \in DOMAIN p \cup {n} |-> IF m = n THEN e ELSE p[m]]

\* ConnectionPool.has
has(n) == n \in DOMAIN pool

\* ConnectionPool.list (the names; their order is left out)
list == DOMAIN pool

\* ConnectionPool.size
size == Cardinality(DOMAIN pool)

\* close() is called on each session of S.
CloseInvoke(sess, S) ==
  [s \in DOMAIN sess |->
     IF s \in S /\ sess[s].status = "open"
       THEN [sess[s] EXCEPT !.status = "closing"]
       ELSE sess[s]]

\* The promises of close() on the sessions of S settle, resolved or rejected;
\* either way the session is not used again and counts as closed.
CloseSettle(sess, S) ==
  [s \in DOMAIN sess |->
     IF s \in S /\ sess[s].status = "closing"
       THEN [sess[s] EXCEPT !.status = "closed"]
       ELSE sess[s]]

CloseOutcomes == {"ok", "throw"}

\* safeClose: await close() inside try/catch; the catch only logs.
safeClose(outcome) == "returned"

\* The sessions something still refers to.
Refs(p, q, b, rt, l) ==
  {p[n].connection : n \in DOMAIN p}
    \cup {q[r].old : r \in Slots}
    \cup {q[r].res.connection : r \in Slots}
    \cup UNION {q[r].closing : r \in Slots}
    \cup {t.connection : t \in BagToSet(b)}
    \cup (IF rt = NoRet THEN {} ELSE {rt.old, rt.res.connection})
    \cup (IF l = NoLast THEN {} ELSE {l.old, l.res.connection} \cup l.closing)

\* The session table after a step: sess, less the closed sessions nothing
\* refers to; what acquire has returned is kept for the sessions kept.
Forget(sess, grants) ==
  LET live == Refs(pool', req', bg', ret', last')
      keep == {s \in DOMAIN sess : sess[s].status # "closed" \/ s \in live}
  IN /\ sessions' = [s \in keep |-> sess[s]]
     /\ granted' = {g \in grants : g.connection \in keep}

\* The errors callTool raises during mcpx call: two that isTransientError takes
\* for transient, one it does not, and the server's answer for a tool it does
\* not have.
CallErrors ==
  { [code |-> "ECONNRESET", message |-> << "read", "econnreset" >>,
     response |-> FALSE],
    [code |-> "", message |-> << "request", "timeout" >>, response |-> FALSE],
    [code |-> "", message |-> << "invalid", "arguments" >>, response |-> FALSE],
    [code |-> "-32602", message |-> << "tool", "not", "found" >>,
     response |-> TRUE] }

\* callViaDaemon has no reply yet.
NoReply == [status |-> 0]

\* The step of the daemon's call handler that a reply comes from: the place
\* the handler was at.
ReplyFrom(q) ==
  LET S == {r \in Slots : q[r].method = "call"}
  IN IF S = {} THEN "none" ELSE q[CHOOSE r \in S : TRUE].pc

\* The daemon's reply l reaches the fetch the call command awaits: the one of
\* isServerInDaemon (has) or the one of callViaDaemon (call).  For a call
\* the place the reply comes from is kept, and the error e that callTool
\* raised in the daemon when it comes from there (kept to compare with; the
\* reply itself carries the message only).
CallHeard(c, q, l, e) ==
  IF c.pc = "probing" /\ l.method = "has" /\ l.server = c.server
    THEN [c EXCEPT !.pc = "probed",
                   !.has = IF l.reply.has THEN "yes" ELSE "no"]
  ELSE IF c.pc = "daemon_call" /\ l.method = "call"
    THEN [c EXCEPT !.pc = "daemon_replied",
                   !.reply = l.reply,
                   !.from = ReplyFrom(q),
                   !.attempts = IF ReplyFrom(q) = "calling" THEN 1 ELSE 0,
                   !.error = IF l.reply.status = 200 THEN c.error ELSE e]
  ELSE c

\* What the call command hears of the step of the daemon.
CallHears ==
  IF /\ call.pc = "daemon_call"
     /\ last'.method = "call"
     /\ last'.reply.status # 200
     /\ ReplyFrom(req) = "calling"
    THEN \E e \in CallErrors : call' = CallHeard(call, req, last', e)
    ELSE call' = CallHeard(call, req, last', [code |-> "", message |-> << "message" >>,
                                  response |-> FALSE])

\* The end of a step of the daemon or of stopDaemon: the session table, the
\* reply that reaches the call command if it awaits one, and the other CLI
\* processes as they were.
Sessions(sess, grants) ==
  /\ Forget(sess, grants)
  /\ CallHears
  /\ UNCHANGED << starter, spawned, overrun, run, retry, applied >>

\* The number connectToServer's next session gets.
FreeIds == {i \in 1 .. MaxSessions : i \notin DOMAIN sessions}
NewId == CHOOSE i \in FreeIds : \A j \in FreeIds : i <= j

\* The lowest free request slot.
FreeSlot(r) ==
  /\ req[r].pc = "idle"
  /\ \A q \in Slots : q < r => req[q].pc # "idle"

\* The handler of slot r has started and has not replied.
InFlight(r) == req[r].pc # "idle"

Reply500 == [status |-> 500, error |-> "message"]

\* The reply a handler has just produced, with the locals it ended with.
Replied(s, reply) ==
  [ method |-> s.method, server |-> s.server, config |-> s.config,
    old |-> s.old, names |-> s.names, closing |-> s.closing, res |-> s.res,
    reply |-> reply ]

\* What acquire has just returned, with the locals it ended with.
Returned(s, res) ==
  [server |-> s.server, config |-> s.config, old |-> s.old, res |-> res]

\* ------------------------------------------------ ConnectionPool.acquire
\* A mutant of AcquireBranch: the stored hash is compared with the config,
\* not with its hash, so an existing entry is never reused.
AcquireBranch_NeverReuse(n, c) ==
  IF n \in DOMAIN pool THEN "reconnect" ELSE "create"

\* The branch acquire takes before its first await.
AcquireBranch(n, c) ==
  IF n \in DOMAIN pool
    THEN IF pool[n].configHash # computeConfigHash(c) THEN "reconnect" ELSE "reuse"
    ELSE "create"

\* A mutant of NewEntry: the hash stored is that of the entry found at the
\* start of acquire.
NewEntry_StaleHash(conn, c, source, old) ==
  [ connection |-> conn, config |-> c, configSource |-> source,
    configHash |-> IF old # 0 THEN computeConfigHash(sessions[old].config)
                   ELSE computeConfigHash(c),
    lastUsed |-> now, startedAt |-> now ]

\* The entry acquire stores for a session it has just opened.
NewEntry(conn, c, source, old) ==
  [ connection |-> conn, config |-> c, configSource |-> source,
    configHash |-> computeConfigHash(c), lastUsed |-> now, startedAt |-> now ]

\* The reply of the connect handler: { ok: true, alreadyConnected }.
ConnectReply(res) ==
  [status |-> 200, ok |-> TRUE, alreadyConnected |-> res.alreadyConnected]

\* The locals of a handler that starts; sizeBefore is the size the pool has
\* before the call (kept to compare with; not a variable of the program).
NewRequest(m, n, c) ==
  [IdleSlot EXCEPT !.method = m, !.server = n, !.config = c, !.sizeBefore = size]

Grant(n, c, conn) ==
  [server |-> n, hash |-> computeConfigHash(c), connection |-> conn]

\* acquire returns res to the handler of slot r, whose locals are s: connect
\* replies, call goes on to connection.client.callTool and awaits it.
AfterAcquire(r, s, res) ==
  /\ ret' = Returned(s, res)
  /\ IF s.method = "connect"
       THEN /\ req' = [req EXCEPT ![r] = IdleSlot]
            /\ last' = Replied([s EXCEPT !.res = res], ConnectReply(res))
       ELSE /\ req' = [req EXCEPT ![r] = [s EXCEPT !.pc = "calling", !.res = res]]
            /\ last' = NoLast

\* A mutant of AcquireReuse: the entry is stamped as if it were new.
AcquireReuse_Restamp(r, m, n, c) ==
  /\ daemonUp
  /\ FreeSlot(r)
  /\ AcquireBranch(n, c) = "reuse"
  /\ pool' = [pool EXCEPT ![n].lastUsed = now, ![n].startedAt = now]
  /\ AfterAcquire(r, NewRequest(m, n, c),
                  [connection |-> pool[n].connection, alreadyConnected |-> TRUE,
                   reconnected |-> FALSE])
  /\ UNCHANGED << bg, now, idleTimer, timerDue, raised, daemonUp, exitArmed,
                  socket, stop >>
  /\ Sessions(sessions, granted \cup {Grant(n, c, pool[n].connection)})

\* connect or call, the entry exists with the same hash: stamp lastUsed and
\* return its session.  acquire does not await on this path.
AcquireReuse(r, m, n, c) ==
  /\ daemonUp
  /\ FreeSlot(r)
  /\ AcquireBranch(n, c) = "reuse"
  /\ pool' = [pool EXCEPT ![n].lastUsed = now]
  /\ AfterAcquire(r, NewRequest(m, n, c),
                  [connection |-> pool[n].connection, alreadyConnected |-> TRUE,
                   reconnected |-> FALSE])
  /\ UNCHANGED << bg, now, idleTimer, timerDue, raised, daemonUp, exitArmed,
                  socket, stop >>
  /\ Sessions(sessions, granted \cup {Grant(n, c, pool[n].connection)})

\* A mutant of AcquireReconnect: the old session is dropped without close.
AcquireReconnect_NoClose(r, m, n, c) ==
  /\ daemonUp
  /\ FreeSlot(r)
  /\ AcquireBranch(n, c) = "reconnect"
  /\ req' = [req EXCEPT ![r] =
       [NewRequest(m, n, c) EXCEPT !.pc = "acq_closing", !.old = pool[n].connection]]
  /\ ret' = NoRet
  /\ last' = NoLast
  /\ UNCHANGED << pool, bg, now, idleTimer, timerDue, raised, daemonUp,
                  exitArmed, socket, stop >>
  /\ Sessions(sessions, granted)

\* connect or call, the entry exists with another hash: close() is called on
\* the old session and acquire awaits safeClose.
AcquireReconnect(r, m, n, c) ==
  /\ daemonUp
  /\ FreeSlot(r)
  /\ AcquireBranch(n, c) = "reconnect"
  /\ req' = [req EXCEPT ![r] =
       [NewRequest(m, n, c) EXCEPT !.pc = "acq_closing", !.old = pool[n].connection]]
  /\ ret' = NoRet
  /\ last' = NoLast
  /\ UNCHANGED << pool, bg, now, idleTimer, timerDue, raised, daemonUp,
                  exitArmed, socket, stop >>
  /\ Sessions(CloseInvoke(sessions, {pool[n].connection}), granted)

\* safeClose has returned: delete the entry, call connectToServer, await it.
AcquireCloseDone(r) ==
  /\ daemonUp
  /\ req[r].pc = "acq_closing"
  /\ \E o \in CloseOutcomes :
       IF safeClose(o) = "returned"
         THEN /\ pool' = PoolDelete(pool, req[r].server)
              /\ req' = [req EXCEPT ![r].pc = "acq_connecting"]
              /\ last' = NoLast
         ELSE /\ pool' = pool
              /\ req' = [req EXCEPT ![r] = IdleSlot]
              /\ last' = Replied(req[r], Reply500)
  /\ ret' = NoRet
  /\ UNCHANGED << bg, now, idleTimer, timerDue, raised, daemonUp, exitArmed,
                  socket, stop >>
  /\ Sessions(CloseSettle(sessions, {req[r].old}), granted)

\* connect or call, no entry: call connectToServer and await it.
AcquireCreate(r, m, n, c) ==
  /\ daemonUp
  /\ FreeSlot(r)
  /\ AcquireBranch(n, c) = "create"
  /\ req' = [req EXCEPT ![r] = [NewRequest(m, n, c) EXCEPT !.pc = "acq_connecting"]]
  /\ ret' = NoRet
  /\ last' = NoLast
  /\ UNCHANGED << pool, bg, now, idleTimer, timerDue, raised, daemonUp,
                  exitArmed, socket, stop >>
  /\ Sessions(sessions, granted)

\* connectToServer has returned a session: store the entry and return.
AcquireConnectOk(r) ==
  /\ daemonUp
  /\ req[r].pc = "acq_connecting"
  /\ FreeIds # {}
  /\ pool' = PoolSet(pool, req[r].server,
                     NewEntry(NewId, req[r].config, "source", req[r].old))
  /\ AfterAcquire(r, req[r],
                  [connection |-> NewId, alreadyConnected |-> FALSE,
                   reconnected |-> req[r].old # 0])
  /\ UNCHANGED << bg, now, idleTimer, timerDue, raised, daemonUp, exitArmed,
                  socket, stop >>
  /\ Sessions([s \in DOMAIN sessions \cup {NewId} |->
                 IF s = NewId
                   THEN [server |-> req[r].server, config |-> req[r].config,
                         status |-> "open"]
                   ELSE sessions[s]],
              granted \cup {Grant(req[r].server, req[r].config, NewId)})

\* connectToServer has thrown: acquire rejects, the handler's catch replies 500.
AcquireConnectFail(r) ==
  /\ daemonUp
  /\ req[r].pc = "acq_connecting"
  /\ req' = [req EXCEPT ![r] = IdleSlot]
  /\ last' = Replied(req[r], Reply500)
  /\ ret' = NoRet
  /\ UNCHANGED << pool, bg, now, idleTimer, timerDue, raised, daemonUp,
                  exitArmed, socket, stop >>
  /\ Sessions(sessions, granted)

\* callTool has settled: reply its result, or 500 with its error.
CallToolDone(r) ==
  /\ daemonUp
  /\ req[r].pc = "calling"
  /\ req' = [req EXCEPT ![r] = IdleSlot]
  /\ \E o \in {"result", "throw"} :
       last' = Replied(req[r], IF o = "result"
                                 THEN [status |-> 200, result |-> "result"]
                                 ELSE Reply500)
  /\ ret' = NoRet
  /\ UNCHANGED << pool, bg, now, idleTimer, timerDue, raised, daemonUp,
                  exitArmed, socket, stop >>
  /\ Sessions(sessions, granted)

\* ------------------------------------------------ ConnectionPool.release
\* disconnect, the entry exists: close() is called, release awaits safeClose.
ReleaseStart(r, n) ==
  /\ daemonUp
  /\ FreeSlot(r)
  /\ n \in DOMAIN pool
  /\ req' = [req EXCEPT ![r] =
       [NewRequest("disconnect", n, << >>) EXCEPT
          !.pc = "rel_closing", !.old = pool[n].connection]]
  /\ ret' = NoRet
  /\ last' = NoLast
  /\ UNCHANGED << pool, bg, now, idleTimer, timerDue, raised, daemonUp,
                  exitArmed, socket, stop >>
  /\ Sessions(CloseInvoke(sessions, {pool[n].connection}), granted)

\* disconnect, no entry: release returns false at once, the reply is ok=false.
ReleaseAbsent(n) ==
  /\ daemonUp
  /\ n \notin DOMAIN pool
  /\ last' = Replied(NewRequest("disconnect", n, << >>), [status |-> 200, ok |-> FALSE])
  /\ ret' = NoRet
  /\ UNCHANGED << pool, req, bg, now, idleTimer, timerDue, raised, daemonUp,
                  exitArmed, socket, stop >>
  /\ Sessions(sessions, granted)

\* A mutant of ReleaseCloseDone: the entry is left in the pool.
ReleaseCloseDone_NoDelete(r) ==
  /\ daemonUp
  /\ req[r].pc = "rel_closing"
  /\ req' = [req EXCEPT ![r] = IdleSlot]
  /\ last' = Replied(req[r], [status |-> 200, ok |-> TRUE])
  /\ ret' = NoRet
  /\ UNCHANGED << pool, bg, now, idleTimer, timerDue, raised, daemonUp, exitArmed,
                  socket, stop >>
  /\ Sessions(CloseSettle(sessions, {req[r].old}), granted)

\* safeClose has returned: delete the entry, release returns true.
ReleaseCloseDone(r) ==
  /\ daemonUp
  /\ req[r].pc = "rel_closing"
  /\ \E o \in CloseOutcomes :
       IF safeClose(o) = "returned"
         THEN /\ pool' = PoolDelete(pool, req[r].server)
              /\ last' = Replied(req[r], [status |-> 200, ok |-> TRUE])
         ELSE /\ pool' = pool
              /\ last' = Replied(req[r], Reply500)
  /\ req' = [req EXCEPT ![r] = IdleSlot]
  /\ ret' = NoRet
  /\ UNCHANGED << bg, now, idleTimer, timerDue, raised, daemonUp, exitArmed,
                  socket, stop >>
  /\ Sessions(CloseSettle(sessions, {req[r].old}), granted)

\* ------------------------------------------------ has, list
\* A mutant of ReqHas: the probe counts as a use of the entry.
ReqHas_Touch(n) ==
  /\ daemonUp
  /\ last' = Replied(NewRequest("has", n, << >>), [status |-> 200, has |-> has(n)])
  /\ ret' = NoRet
  /\ pool' = IF n \in DOMAIN pool THEN [pool EXCEPT ![n].lastUsed = now] ELSE pool
  /\ UNCHANGED << req, bg, now, idleTimer, timerDue, raised, daemonUp,
                  exitArmed, socket, stop >>
  /\ Sessions(sessions, granted)

\* has: the reply is pool.has(server); nothing is awaited.
ReqHas(n) ==
  /\ daemonUp
  /\ last' = Replied(NewRequest("has", n, << >>), [status |-> 200, has |-> has(n)])
  /\ ret' = NoRet
  /\ UNCHANGED << pool, req, bg, now, idleTimer, timerDue, raised, daemonUp,
                  exitArmed, socket, stop >>
  /\ Sessions(sessions, granted)

\* list: the reply is pool.list(); nothing is awaited.
ReqList ==
  /\ daemonUp
  /\ last' = Replied(NewRequest("list", "none", << >>),
                     [status |-> 200, servers |-> list])
  /\ ret' = NoRet
  /\ UNCHANGED << pool, req, bg, now, idleTimer, timerDue, raised, daemonUp,
                  exitArmed, socket, stop >>
  /\ Sessions(sessions, granted)

\* The period of the idle-check timer, the unit of now (milliseconds).
TimerPeriodMs == 60000

\* isHttpServer(config) ? 'http' : 'stdio'
getTransportType(config) ==
  IF \E i \in DOMAIN config : config[i].k = "url" THEN "http" ELSE "stdio"

\* ConnectionPool.listDetailed
listDetailed ==
  { [ name |-> n,
      transport |-> getTransportType(pool[n].config),
      configSource |-> pool[n].configSource,
      idleSeconds |-> ((now - pool[n].lastUsed) * TimerPeriodMs) \div 1000 ] :
    n \in DOMAIN pool }

\* list-detailed: the reply is pool.listDetailed(); nothing is awaited.
ReqListDetailed ==
  /\ daemonUp
  /\ last' = Replied(NewRequest("list-detailed", "none", << >>),
                     [status |-> 200, serversDetailed |-> listDetailed])
  /\ ret' = NoRet
  /\ UNCHANGED << pool, req, bg, now, idleTimer, timerDue, raised, daemonUp,
                  exitArmed, socket, stop >>
  /\ Sessions(sessions, granted)

\* ------------------------------------------------ request validation
\* The bodies a request may carry: text that is not JSON, the JSON null, or
\* an object with a method and with or without server, config and tool.
Bodies ==
  {[json |-> "invalid", method |-> "none", server |-> FALSE, config |-> FALSE,
    tool |-> FALSE],
   [json |-> "null", method |-> "none", server |-> FALSE, config |-> FALSE,
    tool |-> FALSE]}
    \cup [json : {"object"},
          method : {"connect", "call", "disconnect", "has", "list", "bogus"},
          server : BOOLEAN, config : BOOLEAN, tool : BOOLEAN]

\* The request goes on to its handler.
Pass == [status |-> 0]

Reply400(msg) == [status |-> 400, error |-> msg]

\* A mutant of Validate: call is not checked for its tool.
Validate_NoToolCheck(b) ==
  IF b.json = "invalid" THEN Reply400("invalid JSON")
  ELSE IF b.json = "null" THEN Reply500
  ELSE CASE b.method = "connect" ->
              IF ~b.server \/ ~b.config THEN Reply400("missing server or config")
              ELSE Pass
         [] b.method = "call" ->
              IF ~b.server \/ ~b.config
                THEN Reply400("missing server, config, or tool")
              ELSE Pass
         [] b.method \in {"disconnect", "has"} ->
              IF ~b.server THEN Reply400("missing server") ELSE Pass
         [] b.method \in {"list", "list-detailed", "shutdown"} -> Pass
         [] OTHER -> Reply400("unknown method: bogus")

\* What fetch does with a body before it touches the pool: req.json() throws
\* (400), request.method of null throws inside the try (500), a parameter is
\* missing (400), the method is unknown (400), or the handler goes on.
Validate(b) ==
  IF b.json = "invalid" THEN Reply400("invalid JSON")
  ELSE IF b.json = "null" THEN Reply500
  ELSE CASE b.method = "connect" ->
              IF ~b.server \/ ~b.config THEN Reply400("missing server or config")
              ELSE Pass
         [] b.method = "call" ->
              IF ~b.server \/ ~b.config \/ ~b.tool
                THEN Reply400("missing server, config, or tool")
              ELSE Pass
         [] b.method \in {"disconnect", "has"} ->
              IF ~b.server THEN Reply400("missing server") ELSE Pass
         [] b.method \in {"list", "list-detailed", "shutdown"} -> Pass
         [] OTHER -> Reply400("unknown method: bogus")

\* A request whose body does not pass: the reply is all that happens.
ReqRejected(b) ==
  /\ daemonUp
  /\ Validate(b) # Pass
  /\ last' = Replied(NewRequest(b.method, "none", << >>), Validate(b))
  /\ ret' = NoRet
  /\ UNCHANGED << pool, req, bg, now, idleTimer, timerDue, raised, daemonUp,
                  exitArmed, socket, stop >>
  /\ Sessions(sessions, granted)

\* ------------------------------------------------ idle eviction
\* A mutant of IsIdle: an entry idle for exactly the timeout is evicted too.
IsIdle_AtThreshold(t, entry) == t - entry.lastUsed >= IdleTimeoutMs

\* The test of the idle check on one entry.
IsIdle(t, entry) == t - entry.lastUsed > IdleTimeoutMs

\* The clock advances by one timer period; the interval callback becomes due
\* if the timer is set.
Tick ==
  /\ daemonUp
  /\ now < MaxTime
  /\ ~timerDue
  /\ now' = now + 1
  /\ timerDue' = idleTimer
  /\ ret' = NoRet
  /\ last' = NoLast
  /\ UNCHANGED << pool, req, bg, idleTimer, raised, daemonUp, exitArmed,
                  socket, stop >>
  /\ Sessions(sessions, granted)

\* The setInterval callback: release(name) is called, and not awaited, for
\* each idle entry; each call runs up to its await of safeClose, that is,
\* close() has been called on the entry's session.
IdleCheck ==
  /\ daemonUp
  /\ idleTimer
  /\ timerDue
  /\ timerDue' = FALSE
  /\ ret' = NoRet
  /\ last' = NoLast
  /\ UNCHANGED << pool, req, now, idleTimer, raised, daemonUp, exitArmed,
                  socket, stop >>
  /\ LET idle == {n \in DOMAIN pool : IsIdle(now, pool[n])}
     IN /\ bg' = bg (+) SetToBag({[server |-> n, connection |-> pool[n].connection] :
                                    n \in idle})
        /\ Sessions(CloseInvoke(sessions, {pool[n].connection : n \in idle}), granted)

\* A release() the timer started resumes after safeClose: delete the entry.
\* Nobody awaits its promise, so an error out of it is an unhandled rejection.
BgReleaseDone(t) ==
  /\ daemonUp
  /\ BagIn(t, bg)
  /\ bg' = bg (-) SetToBag({t})
  /\ \E o \in CloseOutcomes :
       IF safeClose(o) = "returned"
         THEN /\ pool' = PoolDelete(pool, t.server)
              /\ raised' = raised
         ELSE /\ pool' = pool
              /\ raised' = TRUE
  /\ ret' = NoRet
  /\ last' = NoLast
  /\ UNCHANGED << req, now, idleTimer, timerDue, daemonUp, exitArmed, socket,
                  stop >>
  /\ Sessions(CloseSettle(sessions, {t.connection}), granted)

\* ------------------------------------------------ releaseAll and shutdown
\* A mutant of ReleaseAllNames: the names are read after the pool is cleared.
ReleaseAllNames_AfterClear(p) == {}

\* releaseAll: const names = [...this.pool.keys()]
ReleaseAllNames(p) == DOMAIN p

\* A mutant of stopIdleCheck: the interval is left running.
stopIdleCheck_Noop(timer) == timer

\* stopIdleCheck: clearInterval, idleTimer = undefined.
stopIdleCheck(timer) == FALSE

\* The shutdown request of stopDaemon arrives: releaseAll takes the names,
\* calls close() on every session held and awaits Promise.all.
ReqShutdown(r) ==
  /\ daemonUp
  /\ FreeSlot(r)
  /\ stop.pc = "shutdown"
  /\ stop' = [stop EXCEPT !.pc = "waiting"]
  /\ ret' = NoRet
  /\ last' = NoLast
  /\ UNCHANGED << pool, bg, now, idleTimer, timerDue, raised, daemonUp,
                  exitArmed, socket >>
  /\ LET held == {pool[n].connection : n \in DOMAIN pool}
     IN /\ req' = [req EXCEPT ![r] =
             [IdleSlot EXCEPT !.pc = "relall_closing", !.method = "shutdown",
                              !.names = ReleaseAllNames(pool), !.closing = held]]
        /\ Sessions(CloseInvoke(sessions, held), granted)

\* Promise.all has settled: clear the pool, stop the idle check; the handler
\* arms the exit timer and replies with the names, which stopDaemon reads.
ReleaseAllDone(r) ==
  /\ daemonUp
  /\ req[r].pc = "relall_closing"
  /\ \E out \in [req[r].closing -> CloseOutcomes] :
       IF \A s \in req[r].closing : safeClose(out[s]) = "returned"
         THEN /\ pool' = << >>
              /\ idleTimer' = stopIdleCheck(idleTimer)
              /\ timerDue' = (timerDue /\ stopIdleCheck(idleTimer))
              /\ exitArmed' = TRUE
              /\ last' = Replied(req[r], [status |-> 200, ok |-> TRUE,
                                          servers |-> req[r].names])
              /\ stop' = [stop EXCEPT !.pc = "poll", !.servers = req[r].names]
         ELSE /\ UNCHANGED << pool, idleTimer, timerDue, exitArmed >>
              /\ last' = Replied(req[r], Reply500)
              /\ stop' = [stop EXCEPT !.pc = "poll", !.servers = {}]
  /\ req' = [req EXCEPT ![r] = IdleSlot]
  /\ ret' = NoRet
  /\ UNCHANGED << bg, now, raised, daemonUp, socket >>
  /\ Sessions(CloseSettle(sessions, req[r].closing), granted)

\* The exit timer fires: server.stop(), process.exit(0).  Handlers and
\* releases still waiting die with the process.  The shutdown handler does not
\* unlink the socket file; whether server.stop() removes it is left open.
DaemonExit ==
  /\ daemonUp
  /\ exitArmed
  /\ daemonUp' = FALSE
  /\ exitArmed' = FALSE
  /\ idleTimer' = FALSE
  /\ timerDue' = FALSE
  /\ bg' = EmptyBag
  /\ req' = [r \in Slots |-> IdleSlot]
  /\ \E gone \in BOOLEAN : socket' = (socket /\ ~gone)
  /\ ret' = NoRet
  /\ last' = NoLast
  /\ UNCHANGED << pool, now, raised, stop >>
  /\ Sessions(sessions, granted)

\* ------------------------------------------------ stopDaemon (the client)
\* stopDaemon() without a server name, up to its first await.
StopStart(force) ==
  /\ stop.pc \in {"idle", "done", "exited"}
  /\ stop' = [IdleStop EXCEPT !.force = force,
                !.pc = IF ~socket THEN "done"
                       ELSE IF force THEN "shutdown" ELSE "check"]
  /\ ret' = NoRet
  /\ last' = NoLast
  /\ UNCHANGED << pool, req, bg, now, idleTimer, timerDue, raised, daemonUp,
                  exitArmed, socket >>
  /\ Sessions(sessions, granted)

\* listDaemonServers(): the daemon's list handler answers with pool.list();
\* with no daemon behind the socket fetch throws and the catch goes on.
StopList ==
  /\ stop.pc = "check"
  /\ stop' = IF daemonUp
               THEN [stop EXCEPT !.pc = "listed", !.servers = list]
               ELSE [stop EXCEPT !.pc = "shutdown"]
  /\ ret' = NoRet
  /\ last' = NoLast
  /\ UNCHANGED << pool, req, bg, now, idleTimer, timerDue, raised, daemonUp,
                  exitArmed, socket >>
  /\ Sessions(sessions, granted)

\* A mutant of StopRefuses: the comparison is off by one.
StopRefuses_OffByOne(servers) == Cardinality(servers) > 2

\* if (servers.length > 1) ... process.exit(1)
StopRefuses(servers) == Cardinality(servers) > 1

\* After the list reply: exit 1, or go on to the shutdown request.  A process
\* that has ended keeps its exit code only.
StopDecide ==
  /\ stop.pc = "listed"
  /\ stop' = IF StopRefuses(stop.servers)
               THEN [IdleStop EXCEPT !.pc = "exited", !.exitCode = 1]
               ELSE [stop EXCEPT !.pc = "shutdown"]
  /\ ret' = NoRet
  /\ last' = NoLast
  /\ UNCHANGED << pool, req, bg, now, idleTimer, timerDue, raised, daemonUp,
                  exitArmed, socket >>
  /\ Sessions(sessions, granted)

\* The shutdown fetch fails, no daemon answers: unlink the socket file.
StopStale ==
  /\ stop.pc = "shutdown"
  /\ ~daemonUp
  /\ socket' = FALSE
  /\ stop' = [IdleStop EXCEPT !.pc = "done"]
  /\ ret' = NoRet
  /\ last' = NoLast
  /\ UNCHANGED << pool, req, bg, now, idleTimer, timerDue, raised, daemonUp,
                  exitArmed >>
  /\ Sessions(sessions, granted)

\* The presence of the socket file taken as enough.
isDaemonRunning_SocketOnly == socket

\* isDaemonRunning(): the socket file exists and a list request is answered.
isDaemonRunning == socket /\ daemonUp

\* The wait loop (at most 10 turns of 50 ms) ends: the daemon is seen gone,
\* or the turns are used up.  Either way stopDaemon prints and returns.
StopPollEnd ==
  /\ stop.pc = "poll"
  /\ stop' = [IdleStop EXCEPT !.pc = "done"]
  /\ ret' = NoRet
  /\ last' = NoLast
  /\ UNCHANGED << pool, req, bg, now, idleTimer, timerDue, raised, daemonUp,
                  exitArmed, socket >>
  /\ Sessions(sessions, granted)

\* ------------------------------------------------ startDaemon (the client)
\* startDaemon: daemonWasRunning = await isDaemonRunning().
StartProbe(i) ==
  /\ starter[i] = "idle"
  /\ starter' = [starter EXCEPT ![i] = IF isDaemonRunning THEN "already" ELSE "spawn"]
  /\ ret' = NoRet
  /\ last' = NoLast
  /\ UNCHANGED << pool, req, bg, now, idleTimer, timerDue, raised, daemonUp,
                  exitArmed, socket, stop, spawned, overrun, run, retry, toolVars >>
  /\ Forget(sessions, granted)

\* No daemon was running: unlink the socket file if it exists, spawn the
\* daemon process, sleep 300 ms.
StartSpawn(i) ==
  /\ starter[i] = "spawn"
  /\ starter' = [starter EXCEPT ![i] = "sleep"]
  /\ socket' = FALSE
  /\ overrun' = IF socket /\ daemonUp THEN overrun + 1 ELSE overrun
  /\ spawned' = spawned + 1
  /\ ret' = NoRet
  /\ last' = NoLast
  /\ UNCHANGED << pool, req, bg, now, idleTimer, timerDue, raised, daemonUp,
                  exitArmed, stop, run, retry, toolVars >>
  /\ Forget(sessions, granted)

\* After the sleep: isDaemonRunning() again; process.exit(1) if it is false.
StartCheck(i) ==
  /\ starter[i] = "sleep"
  /\ starter' = [starter EXCEPT ![i] = IF isDaemonRunning THEN "started" ELSE "failed"]
  /\ ret' = NoRet
  /\ last' = NoLast
  /\ UNCHANGED << pool, req, bg, now, idleTimer, timerDue, raised, daemonUp,
                  exitArmed, socket, stop, spawned, overrun, run, retry, toolVars >>
  /\ Forget(sessions, granted)

\* runDaemonServer in a spawned process: unlink the socket file if it exists,
\* create the pool, bind the socket.  It does not ask whether a daemon is
\* running.  A daemon whose file is taken runs on out of reach with what it
\* held; a stopDaemon waiting for its shutdown reply gets that reply.
RunDaemonServer ==
  /\ spawned > 0
  /\ spawned' = spawned - 1
  /\ overrun' = IF socket /\ daemonUp THEN overrun + 1 ELSE overrun
  /\ socket' = TRUE
  /\ daemonUp' = TRUE
  /\ pool' = << >>
  /\ req' = [r \in Slots |-> IdleSlot]
  /\ bg' = EmptyBag
  /\ idleTimer' = TRUE
  /\ timerDue' = FALSE
  /\ exitArmed' = FALSE
  /\ stop' = IF stop.pc = "waiting"
               THEN [stop EXCEPT !.pc = "poll",
                       !.servers = UNION {req[r].names : r \in Slots}]
               ELSE stop
  /\ ret' = NoRet
  /\ last' = NoLast
  /\ UNCHANGED << now, raised, starter, run, retry, toolVars >>
  /\ Forget(sessions, granted)

\* ------------------------------------------------ processWithConcurrency
\* The server names of a config, the keys of mcpServers.
RunNames == {"a", "b", "c"}

\* The lists of names list and grep run over: Object.keys, so no name twice.
ItemLists ==
  {s \in UNION {[1 .. n -> RunNames] : n \in 0 .. MaxItems} :
     \A i, j \in DOMAIN s : s[i] = s[j] => i = j}

Min(a, b) == IF a <= b THEN a ELSE b

\* A mutant of WorkerCount: one worker per item.
WorkerCount_All(maxConcurrency, n) == n

\* Math.min(maxConcurrency, items.length)
WorkerCount(maxConcurrency, n) == Min(maxConcurrency, n)

\* The tools a server lists.
ToolsOf(name) == << name >>

\* What fetchServerTools returns for a server: its tools, or, from its catch,
\* no tools and the error's message.  outcome is what happened: "ok", or
\* the step that threw.
ProcResult(name, index, outcome) ==
  [ name |-> name, index |-> index,
    tools |-> IF outcome = "ok" THEN ToolsOf(name) ELSE << >>,
    error |-> IF outcome = "ok" THEN "none" ELSE outcome ]

\* A slot of new Array(items.length) nothing has been stored in.
EmptySlot == [name |-> "none", index |-> 0, tools |-> << >>, error |-> "empty"]

\* A mutant of FailureEscapes: an error of listTools is thrown on.
FailureEscapes_ListThrows(outcome) == outcome = "list"

\* Whether an error leaves fetchServerTools: its catch takes them all.
FailureEscapes(outcome) == FALSE

\* A mutant of StoreAt: results.push(r).
StoreAt_Push(results, index, r) ==
  LET free == {i \in DOMAIN results : results[i] = EmptySlot}
  IN [results EXCEPT ![CHOOSE i \in free : \A j \in free : i <= j] = r]

\* results[index] = r
StoreAt(results, index, r) == [results EXCEPT ![index] = r]

Seq0(n, v) == [i \in 1 .. n |-> v]

\* The processor is in flight for the item of this worker.
Busy(w) == w.pc \in {"connecting", "listing", "closing"}

\* processWithConcurrency(items, processor, maxConcurrency) up to its await:
\* every worker takes the next index and calls the processor, which runs up
\* to its await of connectToServer.  Position i here is index i - 1 there.
RunStart(items, maxConcurrency) ==
  /\ run = IdleRun
  /\ LET n == Len(items)
         k == WorkerCount(maxConcurrency, n)
     IN run' =
          [ pc |-> IF k = 0 THEN "returned" ELSE "running",
            items |-> items,
            maxConcurrency |-> maxConcurrency,
            currentIndex |-> Min(k, n),
            results |-> Seq0(n, EmptySlot),
            workers |-> [w \in 1 .. k |->
                           IF w <= n THEN [pc |-> "connecting", index |-> w, listOk |-> FALSE]
                           ELSE [pc |-> "done", index |-> 0, listOk |-> FALSE]],
            handed |-> [i \in 1 .. n |-> IF i <= k THEN 1 ELSE 0],
            outcome |-> Seq0(n, "none"),
            sess |-> Seq0(n, "none"),
            closes |-> Seq0(n, 0) ]
  /\ UNCHANGED << daemonVars, starter, spawned, overrun, retry, toolVars >>

\* The processor of worker w ends with this outcome: the result is stored;
\* the worker takes the next index, if one is left, and calls the processor;
\* when no worker is left Promise.all resolves and the results are returned.
\* An error that leaves the processor rejects the worker and Promise.all.
Finish(r, w, outcome) ==
  LET i == r.workers[w].index
      n == Len(r.items)
      next == r.currentIndex + 1
  IN IF FailureEscapes(outcome)
       THEN [r EXCEPT !.pc = "threw", !.outcome[i] = outcome,
                      !.workers[w] = [pc |-> "failed", index |-> i, listOk |-> FALSE]]
     ELSE IF r.currentIndex < n
       THEN [r EXCEPT !.results = StoreAt(r.results, i, ProcResult(r.items[i], i, outcome)),
                      !.outcome[i] = outcome,
                      !.currentIndex = next,
                      !.handed[next] = r.handed[next] + 1,
                      !.workers[w] = [pc |-> "connecting", index |-> next, listOk |-> FALSE]]
     ELSE [r EXCEPT !.results = StoreAt(r.results, i, ProcResult(r.items[i], i, outcome)),
                    !.outcome[i] = outcome,
                    !.workers[w] = [pc |-> "done", index |-> i, listOk |-> FALSE],
                    !.pc = IF /\ r.pc = "running"
                              /\ \A v \in DOMAIN r.workers \ {w} : r.workers[v].pc = "done"
                             THEN "returned" ELSE r.pc]

\* connectToServer settles for the item of worker w.
RunConnectDone(w) ==
  /\ run.pc \in {"running", "threw"}
  /\ w \in DOMAIN run.workers
  /\ run.workers[w].pc = "connecting"
  /\ \E ok \in BOOLEAN :
       run' = IF ok
                THEN [run EXCEPT !.workers[w].pc = "listing",
                                 !.sess[run.workers[w].index] = "open"]
                ELSE Finish(run, w, "connect")
  /\ UNCHANGED << daemonVars, starter, spawned, overrun, retry, toolVars >>

\* A mutant of RunListDone: close is called after the try block, not in a
\* finally, so an error of listTools goes to the catch past it.
RunListDone_NoFinally(w) ==
  /\ run.pc \in {"running", "threw"}
  /\ w \in DOMAIN run.workers
  /\ run.workers[w].pc = "listing"
  /\ \E ok \in BOOLEAN :
       run' = IF ok
                THEN [run EXCEPT !.workers[w].pc = "closing",
                                 !.workers[w].listOk = ok,
                                 !.sess[run.workers[w].index] = "closing",
                                 !.closes[run.workers[w].index] = @ + 1]
                ELSE Finish(run, w, "list")
  /\ UNCHANGED << daemonVars, starter, spawned, overrun, retry, toolVars >>

\* listTools settles; the finally calls safeClose(close) and awaits it.
RunListDone(w) ==
  /\ run.pc \in {"running", "threw"}
  /\ w \in DOMAIN run.workers
  /\ run.workers[w].pc = "listing"
  /\ \E ok \in BOOLEAN :
       run' = [run EXCEPT !.workers[w].pc = "closing",
                          !.workers[w].listOk = ok,
                          !.sess[run.workers[w].index] = "closing",
                          !.closes[run.workers[w].index] = @ + 1]
  /\ UNCHANGED << daemonVars, starter, spawned, overrun, retry, toolVars >>

\* safeClose returns; the processor returns its result, or its catch does.
RunCloseDone(w) ==
  /\ run.pc \in {"running", "threw"}
  /\ w \in DOMAIN run.workers
  /\ run.workers[w].pc = "closing"
  /\ \E o \in CloseOutcomes :
       run' = Finish([run EXCEPT !.sess[run.workers[w].index] = "closed"], w,
                     IF safeClose(o) # "returned" THEN "close"
                     ELSE IF run.workers[w].listOk THEN "ok" ELSE "list")
  /\ UNCHANGED << daemonVars, starter, spawned, overrun, retry, toolVars >>

\* ------------------------------------------------ withRetry
\* MCP_MAX_RETRIES goes up to this.
MaxRetries == 2

\* The values of MCP_TIMEOUT (seconds) and MCP_RETRY_DELAY (milliseconds).
TimeoutSeconds == {1, 3, 9}
RetryDelays == {300, 1000}

\* How long one invocation of the operation takes, and by how much the timer
\* of sleep fires late (milliseconds).
Durations == {0, 1000, 4000}
Lags == {0, 1000}

\* Math.random() * 2 - 1 at its ends and in the middle.
Jitters == {-1, 0, 1}

\* The part of the budget kept for the connection itself, the ceiling of
\* maxDelayMs, and the budget that must remain for a retry (milliseconds).
ConnectReserveMs == 5000
MaxDelayCapMs == 10000
MinRemainingMs == 1000

Max(a, b) == IF a >= b THEN a ELSE b

\* getTimeoutMs for MCP_TIMEOUT = seconds.
getTimeoutMs(seconds) == seconds * 1000

\* getRetryConfig.  The budgets are whole seconds, so the halving is exact.
getRetryConfig(seconds, retries, delayMs) ==
  LET totalBudgetMs == getTimeoutMs(seconds)
      retryBudgetMs == Max(0, totalBudgetMs - ConnectReserveMs)
  IN [ maxRetries |-> retries,
       baseDelayMs |-> delayMs,
       maxDelayMs |-> Min(MaxDelayCapMs, retryBudgetMs \div 2),
       totalBudgetMs |-> totalBudgetMs ]

\* The errors the operation raises.  The message of an error is the sequence
\* of its words, in lower case (the patterns of isTransientError ignore
\* case).  Two carry an errno code and two carry
\* none; the last two are JSON-RPC error responses of the server, which the
\* SDK throws as McpError with the numeric code of the response.
RetryErrors ==
  { [code |-> "ECONNRESET", message |-> << "read", "econnreset" >>, response |-> FALSE],
    [code |-> "ENOENT", message |-> << "spawn", "enoent" >>, response |-> FALSE],
    [code |-> "", message |-> << "503", "service", "unavailable" >>, response |-> FALSE],
    [code |-> "", message |-> << "invalid", "arguments" >>, response |-> FALSE],
    [code |-> "-32602", message |-> << "mcp", "error", "invalid", "params" >>,
     response |-> TRUE],
    [code |-> "-32603", message |-> << "mcp", "error", "upstream", "timeout" >>,
     response |-> TRUE] }

transientCodes ==
  { "ECONNREFUSED", "ECONNRESET", "ETIMEDOUT", "ENOTFOUND", "EPIPE",
    "ENETUNREACH", "EHOSTUNREACH", "EAI_AGAIN" }

RetryableStatus == {"502", "503", "504", "429"}

\* /^(502|503|504|429)\b/, for the statuses S: the message starts with one.
StartsWithStatus(m, S) == m # << >> /\ m[1] \in S

\* /\b(http|status(\s+code)?)\s*(502|503|504|429)\b/i, for the statuses S:
\* "http", "status" or "status code", and then a status.
NamesStatus(m, S) ==
  \E i \in 1 .. Len(m) :
    \/ i + 1 <= Len(m) /\ m[i] \in {"http", "status"} /\ m[i + 1] \in S
    \/ i + 2 <= Len(m) /\ m[i] = "status" /\ m[i + 1] = "code" /\ m[i + 2] \in S

\* /\b(502|503|504|429)\s+(bad gateway|service unavailable|gateway
\* timeout|too many requests)/i: a status and then its reason phrase.
StatusWithReason(m) ==
  \E i \in 1 .. Len(m) :
    /\ m[i] \in RetryableStatus
    /\ \/ /\ i + 2 <= Len(m)
          /\ << m[i + 1], m[i + 2] >> \in
               { << "bad", "gateway" >>, << "service", "unavailable" >>,
                 << "gateway", "timeout" >> }
       \/ /\ i + 3 <= Len(m)
          /\ << m[i + 1], m[i + 2], m[i + 3] >> = << "too", "many", "requests" >>

\* /network\s*(error|fail|unavailable|timeout)/i and
\* /connection\s*(reset|refused|timeout)/i: the word and then one of these.
FollowedBy(m, word, next) ==
  \E i \in 1 .. Len(m) : i + 1 <= Len(m) /\ m[i] = word /\ m[i + 1] \in next

\* /\btimeout\b/i
HasWord(m, word) == \E i \in 1 .. Len(m) : m[i] = word

\* One of the patterns isTransientError tries on the message matches.
MatchesTransientPattern(message) ==
  \/ StartsWithStatus(message, RetryableStatus)
  \/ NamesStatus(message, RetryableStatus)
  \/ StatusWithReason(message)
  \/ FollowedBy(message, "network", {"error", "fail", "unavailable", "timeout"})
  \/ FollowedBy(message, "connection", {"reset", "refused", "timeout"})
  \/ HasWord(message, "timeout")

isTransientError_Always(error) == TRUE

\* isTransientError: by the code when there is one, else by the message.
isTransientError(error) ==
  \/ error.code # "" /\ error.code \in transientCodes
  \/ MatchesTransientPattern(error.message)

RECURSIVE Pow2(_)
Pow2(n) == IF n = 0 THEN 1 ELSE 2 * Pow2(n - 1)

\* Math.round(n / d) for d > 0: halves go up.
Round(n, d) == (2 * n + d) \div (2 * d)

\* calculateDelay, with k / steps standing for Math.random() * 2 - 1.
calculateDelayAt(attempt, config, k, steps) ==
  LET exponentialDelay == config.baseDelayMs * Pow2(attempt)
      cappedDelay == Min(exponentialDelay, config.maxDelayMs)
  IN Round(4 * steps * cappedDelay + cappedDelay * k, 4 * steps)

\* calculateDelay, with r standing for Math.random() * 2 - 1.
calculateDelay(attempt, config, r) == calculateDelayAt(attempt, config, r, 1)

\* No error yet (lastError is undefined).
NoError == [code |-> "", message |-> << >>, response |-> FALSE, by |-> 0]

ShouldRetry_NoBudget(r, error, remainingBudget) ==
  /\ r.attempt < r.config.maxRetries
  /\ isTransientError(error)

\* shouldRetry in the catch of withRetry.
ShouldRetry(r, error, remainingBudget) ==
  /\ r.attempt < r.config.maxRetries
  /\ isTransientError(error)
  /\ remainingBudget > MinRemainingMs

\* withRetry(fn, name) is called with the config of getRetryConfig():
\* startTime is now, attempt is 0.
RetryStart(seconds, retries, delayMs) ==
  /\ retry = IdleRetry
  /\ retry' =
       [ pc |-> "loop",
         config |-> getRetryConfig(seconds, retries, delayMs),
         attempt |-> 0,
         elapsed |-> 0,
         calls |-> 0,
         lastError |-> NoError,
         remainingBudget |-> 0,
         delay |-> 0,
         sleeps |-> 0,
         thrown |-> NoError ]
  /\ UNCHANGED << daemonVars, starter, spawned, overrun, run, toolVars >>

\* The head of the loop: leave it when the attempts or the budget are used
\* up and throw lastError, else invoke the operation.
RetryAttempt ==
  /\ retry.pc = "loop"
  /\ retry' =
       IF \/ retry.attempt > retry.config.maxRetries
          \/ retry.elapsed >= retry.config.totalBudgetMs
       THEN [retry EXCEPT !.pc = "thrown", !.thrown = retry.lastError]
       ELSE [retry EXCEPT !.pc = "calling", !.calls = @ + 1]
  /\ UNCHANGED << daemonVars, starter, spawned, overrun, run, toolVars >>

\* The operation resolves after d milliseconds (for callTool: with a result,
\* which may be a tool-level error, isError: true); withRetry returns it.
RetryFnOk(d) ==
  /\ retry.pc = "calling"
  /\ retry' = [retry EXCEPT !.pc = "returned", !.elapsed = @ + d]
  /\ UNCHANGED << daemonVars, starter, spawned, overrun, run, toolVars >>

\* The operation rejects with error e after d milliseconds: the catch block,
\* up to its await of sleep or its throw.
RetryFnFail(d, e, r) ==
  /\ retry.pc = "calling"
  /\ LET lastError == [code |-> e.code, message |-> e.message,
                       response |-> e.response, by |-> retry.calls]
         elapsed == retry.elapsed + d
         remainingBudget == retry.config.totalBudgetMs - elapsed
     IN retry' =
          IF ShouldRetry(retry, lastError, remainingBudget)
          THEN [retry EXCEPT
                  !.pc = "sleeping",
                  !.elapsed = elapsed,
                  !.lastError = lastError,
                  !.remainingBudget = remainingBudget,
                  !.delay = Min(calculateDelay(retry.attempt, retry.config, r),
                                remainingBudget - MinRemainingMs),
                  !.sleeps = @ + 1]
          ELSE [retry EXCEPT
                  !.pc = "thrown",
                  !.elapsed = elapsed,
                  !.lastError = lastError,
                  !.remainingBudget = remainingBudget,
                  !.thrown = lastError]
  /\ UNCHANGED << daemonVars, starter, spawned, overrun, run, toolVars >>

\* The timer of sleep(delay) fires, lag milliseconds late; attempt++.
RetrySleepDone(lag) ==
  /\ retry.pc = "sleeping"
  /\ retry' = [retry EXCEPT
                 !.pc = "loop",
                 !.elapsed = @ + Max(retry.delay, 0) + lag,
                 !.attempt = @ + 1]
  /\ UNCHANGED << daemonVars, starter, spawned, overrun, run, toolVars >>

\* ------------------------------------------------ environment settings
\* The characters of an environment value, and its greatest length.
EnvChars == {"0", "1", "7", "-", "+", " ", "x"}
MaxEnvLen == 3

\* process.env.NAME: undefined, or a string.
Unset == [set |-> FALSE, text |-> << >>]
EnvValues ==
  {Unset} \cup
  {[set |-> TRUE, text |-> t] :
     t \in UNION {[1 .. n -> EnvChars] : n \in 0 .. MaxEnvLen}}

Digits == {"0", "1", "2", "3", "4", "5", "6", "7", "8", "9"}

DigitValue(ch) ==
  CASE ch = "0" -> 0 [] ch = "1" -> 1 [] ch = "2" -> 2 [] ch = "3" -> 3
    [] ch = "4" -> 4 [] ch = "5" -> 5 [] ch = "6" -> 6 [] ch = "7" -> 7
    [] ch = "8" -> 8 [] ch = "9" -> 9

RECURSIVE SkipWhiteSpace(_)
SkipWhiteSpace(t) ==
  IF t # << >> /\ Head(t) = " " THEN SkipWhiteSpace(Tail(t)) ELSE t

\* The digits t starts with, read as a decimal number that continues acc.
RECURSIVE ReadDigits(_, _)
ReadDigits(t, acc) ==
  IF t # << >> /\ Head(t) \in Digits
    THEN ReadDigits(Tail(t), 10 * acc + DigitValue(Head(t)))
    ELSE acc

NaN == [nan |-> TRUE, value |-> 0]

\* Number.parseInt(text, 10): white space is skipped, a sign is read, then
\* the digits up to the first other character; NaN when there are none.
parseInt(text) ==
  LET t == SkipWhiteSpace(text)
      signed == t # << >> /\ Head(t) \in {"-", "+"}
      body == IF signed THEN Tail(t) ELSE t
      magnitude == ReadDigits(body, 0)
  IN IF body = << >> \/ Head(body) \notin Digits THEN NaN
     ELSE [nan |-> FALSE,
           value |-> IF signed /\ Head(t) = "-" THEN 0 - magnitude ELSE magnitude]

DEFAULT_CONCURRENCY == 5

\* A JavaScript string is truthy when it is set and not empty.
Truthy(env) == env.set /\ env.text # << >>

getConcurrencyLimit_ZeroAccepted(env) ==
  IF Truthy(env)
    THEN LET limit == parseInt(env.text)
         IN IF ~limit.nan /\ limit.value >= 0 THEN limit.value
            ELSE DEFAULT_CONCURRENCY
    ELSE DEFAULT_CONCURRENCY

\* getConcurrencyLimit, with env for process.env.MCP_CONCURRENCY.
getConcurrencyLimit(env) ==
  IF Truthy(env)
    THEN LET limit == parseInt(env.text)
         IN IF ~limit.nan /\ limit.value > 0 THEN limit.value
            ELSE DEFAULT_CONCURRENCY
    ELSE DEFAULT_CONCURRENCY

\* getConcurrencyLimit() is called with MCP_CONCURRENCY = env.
ApplyGetConcurrencyLimit(env) ==
  /\ applied' = [fn |-> "getConcurrencyLimit", arg |-> env,
                 value |-> getConcurrencyLimit(env)]
  /\ UNCHANGED << daemonVars, starter, spawned, overrun, run, retry, call >>

\* ------------------------------------------------ computeConfigHash applied
\* Nothing has been asked of the daemon yet.
Untouched ==
  /\ pool = << >>
  /\ sessions = << >>
  /\ \A r \in Slots : req[r] = IdleSlot
  /\ last = NoLast
  /\ ret = NoRet

\* computeConfigHash is called on c1 and on c2.
ApplyComputeConfigHash(c1, c2) ==
  /\ Untouched
  /\ applied = NoApply
  /\ applied' = [fn |-> "computeConfigHash", arg |-> << c1, c2 >>,
                 value |-> << computeConfigHash(c1), computeConfigHash(c2) >>]
  /\ UNCHANGED << daemonVars, starter, spawned, overrun, run, retry, call >>

\* One config in four spellings (the keys of the config, of env, and of the
\* object in args reordered) and two configs that differ from it.
Spelled(first, argsObj, envObj) ==
  IF first = "args" THEN Cfg("args", Arr(<< argsObj >>), "env", envObj)
  ELSE Cfg("env", envObj, "args", Arr(<< argsObj >>))

ObjAB == Obj(<< Pair("A", Str("x")), Pair("B", Str("y")) >>)
ObjBA == Obj(<< Pair("B", Str("y")), Pair("A", Str("x")) >>)

ReorderedConfigs ==
  { Spelled("args", ObjAB, ObjAB), Spelled("env", ObjAB, ObjAB),
    Spelled("args", ObjAB, ObjBA), Spelled("args", ObjBA, ObjAB),
    Spelled("args", ObjAB, Obj(<< Pair("A", Str("y")), Pair("B", Str("y")) >>)),
    Cfg("args", Arr(<< Str("x"), Str("y") >>), "env", ObjAB),
    Cfg("args", Arr(<< Str("y"), Str("x") >>), "env", ObjAB) }

\* ------------------------------------------------ isTransientError applied
\* The words of the messages classified, and the most a message has.
Words ==
  { "503", "401", "http", "status", "timeout", "connection", "refused",
    "network", "error", "invalid", "service", "unavailable" }
MaxWords == 3

Messages == UNION {[1 .. n -> Words] : n \in 0 .. MaxWords}

\* error.code: none, one of the codes isTransientError lists, or another.
ErrorCodes == {"", "ENOENT", "EACCES"} \cup transientCodes

ClassifiedErrors == [code : ErrorCodes, message : Messages]

\* isTransientError(e) is called.
ApplyIsTransientError(e) ==
  /\ applied = NoApply
  /\ applied' = [fn |-> "isTransientError", arg |-> e, value |-> isTransientError(e)]
  /\ UNCHANGED << daemonVars, starter, spawned, overrun, run, retry, call >>

\* ------------------------------------------------ calculateDelay applied
\* The values of MCP_RETRY_DELAY and of MCP_TIMEOUT (seconds), the attempts,
\* and the draws of Math.random() in steps of 1 / (2 * JitterSteps): 0 is
\* drawn, 1 is not.
DelayBases == {1, 2, 3, 4, 300, 1000}
DelayTimeouts == {1, 6, 7, 9, 30}
MaxAttempt == 3
JitterSteps == 4

\* calculateDelay(attempt, getRetryConfig()) with the draw k / JitterSteps.
ApplyCalculateDelay(attempt, seconds, base, k) ==
  /\ Untouched
  /\ applied = NoApply
  /\ LET config == getRetryConfig(seconds, 0, base)
     IN applied' = [ fn |-> "calculateDelay", attempt |-> attempt,
                     config |-> config, k |-> k,
                     value |-> calculateDelayAt(attempt, config, k, JitterSteps) ]
  /\ UNCHANGED << daemonVars, starter, spawned, overrun, run, retry, call >>

\* ------------------------------------------------ mcpx call
\* The tools of a server.
Tools == {"read", "write"}

\* A target server/tool as the text the patterns are matched against: the
\* server name, the slash, the tool name.
ToolPath(n, t) == << n, "/", t >>

\* globMatch: the pattern is split at its stars, the pieces are taken
\* literally and joined by .*, the whole is anchored at both ends.  A star
\* stands for any text, slashes included.
RECURSIVE globMatch(_, _)
globMatch(pattern, str) ==
  IF pattern = << >> THEN str = << >>
  ELSE IF Head(pattern) = "*"
    THEN \E k \in 0 .. Len(str) :
           globMatch(Tail(pattern), SubSeq(str, k + 1, Len(str)))
  ELSE /\ str # << >>
       /\ Head(str) = Head(pattern)
       /\ globMatch(Tail(pattern), Tail(str))

\* The patterns loadDisabledTools may find in the disabled-tools files and in
\* MCP_DISABLED_TOOLS.
DisabledPatternSets ==
  { {},
    {<< "*", "/", "*" >>},
    {<< "a", "/", "*" >>},
    {<< "*", "/", "read" >>, << "b", "/", "write" >>},
    {<< "*", "write" >>} }

\* findDisabledMatch finds no pattern.
NoMatch == << "none" >>

\* A mutant of findDisabledMatch: a pattern matches the path equal to it.
findDisabledMatch_Literal(toolPath, patterns) ==
  LET M == {p \in patterns : p = toolPath}
  IN IF M = {} THEN NoMatch ELSE CHOOSE p \in M : TRUE

\* findDisabledMatch: a pattern that matches the path, if there is one.
findDisabledMatch(toolPath, patterns) ==
  LET M == {p \in patterns : globMatch(p, toolPath)}
  IN IF M = {} THEN NoMatch ELSE CHOOSE p \in M : TRUE

\* A list of patterns in a server's config, or its absence.  An empty list
\* is present (an empty array is truthy).
Absent == [present |-> FALSE, patterns |-> {}]
List(S) == [present |-> TRUE, patterns |-> S]

\* The includeTools, allowedTools and disabledTools of a server's config.
Filters ==
  { [includeTools |-> Absent, allowedTools |-> Absent, disabledTools |-> Absent],
    [includeTools |-> List({}), allowedTools |-> Absent, disabledTools |-> Absent],
    [includeTools |-> List({<< "read" >>}), allowedTools |-> List({<< "write" >>}),
     disabledTools |-> Absent],
    [includeTools |-> Absent, allowedTools |-> List({<< "write" >>}),
     disabledTools |-> Absent],
    [includeTools |-> List({<< "*" >>}), allowedTools |-> Absent,
     disabledTools |-> List({<< "read" >>})],
    [includeTools |-> Absent, allowedTools |-> Absent,
     disabledTools |-> List({<< "*" >>})] }

\* getIncludePatterns: includeTools, else allowedTools, else undefined.
getIncludePatterns(serverConfig) ==
  IF serverConfig.includeTools.present THEN serverConfig.includeTools
  ELSE IF serverConfig.allowedTools.present THEN serverConfig.allowedTools
  ELSE Absent

\* getDisabledPatterns
getDisabledPatterns(serverConfig) == serverConfig.disabledTools

\* isToolAllowedByServerConfig
isToolAllowedByServerConfig(toolName, serverConfig) ==
  LET includePatterns == getIncludePatterns(serverConfig)
      disabledPatterns == getDisabledPatterns(serverConfig)
  IN /\ includePatterns.present =>
          \E p \in includePatterns.patterns : globMatch(p, << toolName >>)
     /\ disabledPatterns.present =>
          ~ \E p \in disabledPatterns.patterns : globMatch(p, << toolName >>)

\* ErrorCode
CLIENT_ERROR == 1
SERVER_ERROR == 2
NETWORK_ERROR == 3

\* The environment of mcpx call: MCP_TIMEOUT (seconds), MCP_MAX_RETRIES and
\* MCP_RETRY_DELAY (milliseconds); how long one callTool takes.
CallTimeoutSeconds == 9
CallRetries == {1}
CallRetryDelay == 1000
CallDurations == {1000}

\* The server config the call command reads for every server.
CallConfig == CHOOSE c \in TwoConfigs : TRUE

\* errMsg.includes('not found') || errMsg.includes('unknown tool')
ToolNotFound(e) ==
  \/ FollowedBy(e.message, "not", {"found"})
  \/ FollowedBy(e.message, "unknown", {"tool"})

\* process.exit(code), or the return of callCommand (code 0).
Exited(c, code, kind) == [c EXCEPT !.pc = "exited", !.exitCode = code, !.kind = kind]

\* connectToServer is called.
Connecting(c) == [c EXCEPT !.pc = "connecting", !.connects = @ + 1]

\* callCommand from its start to its first exchange with another process:
\* the checks of the target, and of isServerInDaemon the look at the socket
\* file.
CallStart(n, t, patterns, filter, known, argsOk) ==
  /\ call = IdleCall
  /\ LET c == [ pc |-> "started", server |-> n, tool |-> t,
                config |-> CallConfig, patterns |-> patterns,
                filter |-> filter, known |-> known, argsOk |-> argsOk,
                has |-> "unasked", sent |-> << >>, connects |-> 0,
                session |-> "none", closeInvoked |-> FALSE,
                reply |-> NoReply, from |-> "none", attempts |-> 0,
                error |-> [code |-> "", message |-> << >>, response |-> FALSE],
                exitCode |-> 0, kind |-> "none" ]
     IN call' =
          IF findDisabledMatch(ToolPath(n, t), patterns) # NoMatch
            THEN Exited(c, CLIENT_ERROR, "disabled")
          ELSE IF ~known THEN Exited(c, CLIENT_ERROR, "config")
          ELSE IF ~isToolAllowedByServerConfig(t, filter)
            THEN Exited(c, CLIENT_ERROR, "filter")
          ELSE IF ~argsOk THEN Exited(c, CLIENT_ERROR, "args")
          ELSE IF ~socket THEN Connecting([c EXCEPT !.has = "nosocket"])
          ELSE [c EXCEPT !.pc = "probing", !.sent = << "has" >>]
  /\ UNCHANGED << daemonVars, starter, spawned, overrun, run, retry, applied >>

\* isServerInDaemon: the daemon answers the has request.
CallProbe ==
  /\ call.pc = "probing"
  /\ ReqHas(call.server)

\* isServerInDaemon: the fetch fails (nothing listens on the socket), the
\* catch returns false and callCommand calls connectToServer.
CallProbeFails ==
  /\ call.pc = "probing"
  /\ ~daemonUp
  /\ call' = Connecting([call EXCEPT !.has = "failed"])
  /\ UNCHANGED << daemonVars, starter, spawned, overrun, run, retry, applied >>

\* A mutant of CallRoute: the answer of isServerInDaemon is not read.
CallRoute_AlwaysDaemon ==
  /\ call.pc = "probed"
  /\ call' = [call EXCEPT !.pc = "daemon_call", !.sent = Append(@, "call")]
  /\ UNCHANGED << daemonVars, starter, spawned, overrun, run, retry, applied >>

\* isServerInDaemon has returned: callViaDaemon sends the call request, or
\* callCommand calls connectToServer.
CallRoute ==
  /\ call.pc = "probed"
  /\ call' = IF call.has = "yes"
               THEN [call EXCEPT !.pc = "daemon_call", !.sent = Append(@, "call")]
               ELSE Connecting(call)
  /\ UNCHANGED << daemonVars, starter, spawned, overrun, run, retry, applied >>

\* The call request reaches the daemon: its handler runs pool.acquire up to
\* the first await.
CallRequestArrives ==
  /\ call.pc = "daemon_call"
  /\ \A q \in Slots : req[q].method # "call"
  /\ \E r \in Slots :
       \/ AcquireReuse(r, "call", call.server, call.config)
       \/ AcquireReconnect(r, "call", call.server, call.config)
       \/ AcquireCreate(r, "call", call.server, call.config)

\* callViaDaemon: the fetch fails, the daemon is gone.
CallRequestLost ==
  /\ call.pc = "daemon_call"
  /\ ~daemonUp
  /\ call' = [call EXCEPT !.pc = "daemon_replied", !.from = "fetch"]
  /\ UNCHANGED << daemonVars, starter, spawned, overrun, run, retry, applied >>

\* callViaDaemon has settled: the result is printed and callCommand returns,
\* or the catch prints the error and exits.
CallViaDaemonDone ==
  /\ call.pc = "daemon_replied"
  /\ call' = IF call.reply.status = 200
               THEN Exited(call, 0, "ok")
               ELSE Exited(call, SERVER_ERROR,
                           IF ToolNotFound(call.error) THEN "notfound"
                           ELSE "execution")
  /\ UNCHANGED << daemonVars, starter, spawned, overrun, run, retry, applied >>

\* connectToServer has returned the session; callTool is called.
CallConnectOk ==
  /\ call.pc = "connecting"
  /\ call' = [call EXCEPT !.pc = "calltool", !.session = "open"]
  /\ UNCHANGED << daemonVars, starter, spawned, overrun, run, retry, applied >>

\* connectToServer has thrown.
CallConnectFail ==
  /\ call.pc = "connecting"
  /\ call' = Exited(call, NETWORK_ERROR, "network")
  /\ UNCHANGED << daemonVars, starter, spawned, overrun, run, retry, applied >>

\* callTool: withRetry around client.callTool, with the call's environment.
CallToolStart ==
  /\ call.pc = "calltool"
  /\ \E retries \in CallRetries :
       RetryStart(CallTimeoutSeconds, retries, CallRetryDelay)

\* callTool has returned: the result is printed; the finally block calls
\* safeClose(close) and awaits it.
CallToolReturns ==
  /\ call.pc = "calltool"
  /\ retry # IdleRetry
  /\ retry.pc = "returned"
  /\ call' = [call EXCEPT !.pc = "closing", !.attempts = retry.calls,
                          !.session = "closing", !.closeInvoked = TRUE]
  /\ UNCHANGED << daemonVars, starter, spawned, overrun, run, retry, applied >>

\* callTool has thrown: the catch block calls listTools and awaits it.
CallToolThrows ==
  /\ call.pc = "calltool"
  /\ retry # IdleRetry
  /\ retry.pc = "thrown"
  /\ call' = [call EXCEPT !.pc = "listing", !.attempts = retry.calls,
                          !.error = [code |-> retry.thrown.code,
                                     message |-> retry.thrown.message,
                                     response |-> retry.thrown.response]]
  /\ UNCHANGED << daemonVars, starter, spawned, overrun, run, retry, applied >>

\* listTools has settled, with the tools or not: the catch block prints the
\* error and calls process.exit, which ends the process there; the finally
\* block is not reached.
CallListDone(listed) ==
  /\ call.pc = "listing"
  /\ call' = Exited(call, SERVER_ERROR,
                    IF ToolNotFound(call.error) THEN "notfound" ELSE "execution")
  /\ UNCHANGED << daemonVars, starter, spawned, overrun, run, retry, applied >>

\* safeClose has returned in the finally block; callCommand returns.
CallCloseDone ==
  /\ call.pc = "closing"
  /\ \E o \in CloseOutcomes :
       /\ safeClose(o) = "returned"
       /\ call' = Exited([call EXCEPT !.session = "closed"], 0, "ok")
  /\ UNCHANGED << daemonVars, starter, spawned, overrun, run, retry, applied >>

\* ------------------------------------------------ the specifications
\* A connect or call request arrives and runs up to its first await.
AcquireArrives(S, methods, C) ==
  \E r \in S, m \in methods, n \in Names, c \in C :
    \/ AcquireReuse(r, m, n, c)
    \/ AcquireReconnect(r, m, n, c)
    \/ AcquireCreate(r, m, n, c)

\* An acquire resumes after an await.
AcquireResumes(S) ==
  \E r \in S :
    \/ AcquireCloseDone(r)
    \/ AcquireConnectOk(r)
    \/ AcquireConnectFail(r)

\* disconnect requests.
Disconnects(S) ==
  \/ \E r \in S, n \in Names : ReleaseStart(r, n)
  \/ \E r \in S : ReleaseCloseDone(r)
  \/ \E n \in Names : ReleaseAbsent(n)

\* The idle-check timer and the releases it starts.
IdleTimer ==
  \/ Tick
  \/ IdleCheck
  \/ \E t \in BagToSet(bg) : BgReleaseDone(t)

\* The shutdown request and the exit it schedules.
Shutdown(S) ==
  \/ \E r \in S : ReqShutdown(r)
  \/ \E r \in S : ReleaseAllDone(r)
  \/ DaemonExit

\* Overlapping connect and disconnect requests.
Next ==
  \/ AcquireArrives(Slots, {"connect"}, Configs)
  \/ AcquireResumes(Slots)
  \/ Disconnects(Slots)

Spec == Init /\ [][Next]_vars

\* One request at a time, the idle timer, and stopDaemon --force.
NextIdle ==
  \/ AcquireArrives({1}, {"connect"}, Configs)
  \/ AcquireResumes({1})
  \/ Disconnects({1})
  \/ IdleTimer
  \/ Shutdown({1})
  \/ StopStart(TRUE)
  \/ StopPollEnd

SpecIdle == Init /\ [][NextIdle]_vars

\* stopDaemon, forced or not, against a daemon that takes connect requests.
NextStop ==
  \/ AcquireArrives(Slots, {"connect"}, TwoConfigs)
  \/ AcquireResumes(Slots)
  \/ Shutdown(Slots)
  \/ \E force \in BOOLEAN : StopStart(force)
  \/ StopList
  \/ StopDecide
  \/ StopStale
  \/ StopPollEnd

SpecStop == Init /\ [][NextStop]_vars

\* One request at a time, of every method but shutdown, with good and bad
\* bodies.
NextReq ==
  \/ AcquireArrives({1}, {"connect", "call"}, TwoConfigs)
  \/ AcquireResumes({1})
  \/ CallToolDone(1)
  \/ Disconnects({1})
  \/ \E n \in Names : ReqHas(n)
  \/ ReqList
  \/ \E b \in Bodies : ReqRejected(b)

SpecReq == Init /\ [][NextReq]_vars

\* One list or grep over every list of servers and concurrency limit.
NextRun ==
  \/ \E items \in ItemLists, c \in 1 .. MaxConcurrency : RunStart(items, c)
  \/ \E w \in 1 .. MaxItems : RunConnectDone(w)
  \/ \E w \in 1 .. MaxItems : RunListDone(w)
  \/ \E w \in 1 .. MaxItems : RunCloseDone(w)

SpecRun == Init /\ [][NextRun]_vars

\* One withRetry over every retry configuration, duration and error.
NextRetry ==
  \/ \E seconds \in TimeoutSeconds, retries \in 0 .. MaxRetries,
        delayMs \in RetryDelays : RetryStart(seconds, retries, delayMs)
  \/ RetryAttempt
  \/ \E d \in Durations : RetryFnOk(d)
  \/ \E d \in Durations, e \in RetryErrors, r \in Jitters : RetryFnFail(d, e, r)
  \/ \E lag \in Lags : RetrySleepDone(lag)

\* The operation settles, timers fire and the loop goes on.
RetryFair ==
  /\ WF_vars(RetryAttempt)
  /\ WF_vars(\E d \in Durations : RetryFnOk(d))
  /\ WF_vars(\E d \in Durations, e \in RetryErrors, r \in Jitters : RetryFnFail(d, e, r))
  /\ WF_vars(\E lag \in Lags : RetrySleepDone(lag))

SpecRetry == Init /\ [][NextRetry]_vars /\ RetryFair

\* The settings read from the environment, over every value.
NextConfig ==
  \E env \in EnvValues : ApplyGetConcurrencyLimit(env)

SpecConfig == Init /\ [][NextConfig]_vars

\* computeConfigHash on every pair of configs, and connect requests with one
\* config in several spellings.
NextHash ==
  \/ applied = NoApply /\ \E c1 \in HashConfigs, c2 \in HashConfigs :
                            ApplyComputeConfigHash(c1, c2)
  \/ applied = NoApply /\ AcquireArrives({1}, {"connect"}, ReorderedConfigs)
  \/ applied = NoApply /\ AcquireResumes({1})

SpecHash == Init /\ [][NextHash]_vars

\* One connect or call request at a time, the introspection requests, and
\* the idle timer.
NextPool ==
  \/ AcquireArrives({1}, {"connect", "call"}, TwoConfigs)
  \/ AcquireResumes({1})
  \/ CallToolDone(1)
  \/ IdleTimer
  \/ \E n \in Names : ReqHas(n)
  \/ ReqList
  \/ ReqListDetailed

SpecPool == Init /\ [][NextPool]_vars

\* The interval timer fires when its period has passed, its callback runs,
\* and the close() a release awaits settles.
TimerFair ==
  /\ WF_vars(Tick)
  /\ WF_vars(IdleCheck)
  /\ WF_vars(\E t \in BagToSet(bg) : BgReleaseDone(t))

\* Clients connect servers while the idle timer runs.
NextEvict ==
  \/ AcquireArrives({1}, {"connect"}, TwoConfigs)
  \/ AcquireResumes({1})
  \/ IdleTimer

SpecEvict == Init /\ [][NextEvict]_vars /\ TimerFair

\* calculateDelay on every attempt, config and draw.
NextDelay ==
  applied = NoApply /\
    \E attempt \in 0 .. MaxAttempt, seconds \in DelayTimeouts,
       base \in DelayBases, k \in -JitterSteps .. JitterSteps - 1 :
      ApplyCalculateDelay(attempt, seconds, base, k)

SpecDelay == Init /\ [][NextDelay]_vars

\* isTransientError on every error.
NextClassify ==
  applied = NoApply /\ \E e \in ClassifiedErrors : ApplyIsTransientError(e)

SpecClassify == Init /\ [][NextClassify]_vars

\* The call command has not started, or it may still turn to the daemon: the
\* requests of the daemon's other clients are followed until then.
CallMayReach == call.pc \in {"idle", "probing", "probed", "daemon_call"}

\* One mcpx call over every target, pattern set and filter, with a daemon
\* that holds no session.
NextCheck ==
  \/ \E n \in Names, t \in Tools, patterns \in DisabledPatternSets,
        filter \in Filters, known \in BOOLEAN, argsOk \in BOOLEAN :
        CallStart(n, t, patterns, filter, known, argsOk)
  \/ CallProbe
  \/ CallRoute
  \/ CallConnectOk
  \/ CallConnectFail
  \/ CallToolStart
  \/ RetryAttempt
  \/ \E d \in CallDurations : RetryFnOk(d)
  \/ \E d \in CallDurations, e \in CallErrors : RetryFnFail(d, e, 0)
  \/ RetrySleepDone(0)
  \/ CallToolReturns
  \/ CallToolThrows
  \/ \E listed \in BOOLEAN : CallListDone(listed)
  \/ CallCloseDone

SpecCheck == Init /\ [][NextCheck]_vars

\* No tool is filtered out.
NoFilter ==
  [includeTools |-> Absent, allowedTools |-> Absent, disabledTools |-> Absent]

\* One mcpx call of a tool that is not disabled, next to a daemon that takes
\* connect and disconnect requests and may be stopped.
NextCall ==
  \/ \E n \in Names : CallStart(n, "read", {}, NoFilter, TRUE, TRUE)
  \/ CallProbe
  \/ CallProbeFails
  \/ CallRoute
  \/ CallRequestArrives
  \/ CallRequestLost
  \/ CallViaDaemonDone
  \/ CallConnectOk
  \/ CallConnectFail
  \/ CallToolStart
  \/ RetryAttempt
  \/ \E d \in CallDurations : RetryFnOk(d)
  \/ \E d \in CallDurations, e \in CallErrors : RetryFnFail(d, e, 0)
  \/ RetrySleepDone(0)
  \/ CallToolReturns
  \/ CallToolThrows
  \/ \E listed \in BOOLEAN : CallListDone(listed)
  \/ CallCloseDone
  \/ AcquireResumes(Slots)
  \/ \E r \in Slots : CallToolDone(r)
  \/ CallMayReach /\ AcquireArrives({1}, {"connect"}, TwoConfigs)
  \/ CallMayReach /\ Disconnects({1})
  \/ CallMayReach /\ Shutdown({1})
  \/ CallMayReach /\ StopStart(TRUE)
  \/ CallMayReach /\ StopPollEnd

SpecCall == Init /\ [][NextCall]_vars

\* startDaemon invocations, next to stopDaemon --force and the daemon's exit.
NextBoot ==
  \/ \E i \in Starters : StartProbe(i)
  \/ \E i \in Starters : StartSpawn(i)
  \/ \E i \in Starters : StartCheck(i)
  \/ RunDaemonServer
  \/ Shutdown(Slots)
  \/ StopStart(TRUE)
  \/ StopStale
  \/ StopPollEnd

SpecBoot == Init /\ [][NextBoot]_vars

\* ------------------------------------------------ properties
\* A step leaves every session as it was (a closed session nothing refers to
\* may be forgotten).
SessionsUntouched ==
  /\ DOMAIN sessions' \subseteq DOMAIN sessions
  /\ \A s \in DOMAIN sessions' : sessions'[s] = sessions[s]
  /\ \A s \in DOMAIN sessions \ DOMAIN sessions' : sessions[s].status = "closed"

\* acquire(n, c) is called in this step.
AcquireCalled(n, c) ==
  \E r \in Slots, m \in {"connect", "call"} :
    \/ AcquireReuse(r, m, n, c)
    \/ AcquireReconnect(r, m, n, c)
    \/ AcquireCreate(r, m, n, c)

\* connectToServer is invoked in this step.
ConnectInvoked ==
  \E r \in Slots : req'[r].pc = "acq_connecting" /\ req[r].pc # "acq_connecting"

\* C1: when acquire(n, c) has returned a session, the entry of n still holds
\* that session, and acquire(n, c2) is called with a config of the same hash,
\* the call returns that same session with alreadyConnected = true and
\* reconnected = false, in the same step, and connectToServer is not invoked.
C1_AcquireReuse ==
  [][\A n \in Names, c \in Configs :
       ( /\ AcquireCalled(n, c)
         /\ \E g \in granted :
              /\ g.server = n
              /\ g.hash = computeConfigHash(c)
              /\ has(n)
              /\ pool[n].connection = g.connection )
       => /\ ret' # NoRet
          /\ ret'.server = n
          /\ ret'.res = [connection |-> pool[n].connection,
                         alreadyConnected |-> TRUE, reconnected |-> FALSE]
          /\ ~ConnectInvoked
          /\ SessionsUntouched]_vars

\* C1 witness: acquire has just reused the entry of a server for a config
\* spelled otherwise than the config the entry was created from.
C1_Witness ==
  /\ ret # NoRet
  /\ ret.res.alreadyConnected
  /\ has(ret.server)
  /\ pool[ret.server].config # ret.config
  /\ pool[ret.server].connection = ret.res.connection

\* C2 as stated: the reply to a connect request that found the server under a
\* config of another hash reports alreadyConnected = false and
\* reconnected = true.
C2_ReplyReportsReconnected ==
  (last.method = "connect" /\ last.old # 0 /\ last.reply.status = 200)
    => /\ "reconnected" \in DOMAIN last.reply
       /\ last.reply.reconnected = TRUE
       /\ last.reply.alreadyConnected = FALSE

\* C2, amended: when a connect request finds the server under a config C1 of
\* another hash than its config C2, close is invoked on the C1 session and has
\* completed before connectToServer is invoked for C2; when that succeeds the
\* session acquire returns is a distinct one, the entry then holds C2 with
\* hash(C2), acquire returns alreadyConnected = false and reconnected = true,
\* and the reply, produced only then, is { ok, alreadyConnected = false }: it
\* carries no reconnected field.
C2_Reconnect ==
  /\ \A r \in Slots :
       (req[r].pc = "acq_connecting" /\ req[r].old # 0)
         => sessions[req[r].old].status = "closed"
  /\ (ret # NoRet /\ ret.old # 0) =>
       /\ sessions[ret.old].status = "closed"
       /\ ret.res.connection # ret.old
       /\ sessions[ret.res.connection].config = ret.config
       /\ has(ret.server)
       /\ pool[ret.server].connection = ret.res.connection
       /\ pool[ret.server].config = ret.config
       /\ pool[ret.server].configHash = computeConfigHash(ret.config)
       /\ ret.res.alreadyConnected = FALSE
       /\ ret.res.reconnected = TRUE
       /\ last.method = "connect"
       /\ last.reply = [status |-> 200, ok |-> TRUE, alreadyConnected |-> FALSE]

\* C2 witness: a connect request has just been answered after a reconnect.
C2_Witness ==
  /\ ret # NoRet
  /\ ret.old # 0
  /\ ret.res.reconnected
  /\ last.method = "connect"
  /\ computeConfigHash(sessions[ret.old].config) # computeConfigHash(ret.config)

\* C3: every entry's configHash is computeConfigHash of its config, and its
\* session is the one connectToServer opened for that server from that config.
C3_PoolHash ==
  \A n \in DOMAIN pool :
    /\ pool[n].configHash = computeConfigHash(pool[n].config)
    /\ pool[n].connection \in DOMAIN sessions
    /\ sessions[pool[n].connection].server = n
    /\ sessions[pool[n].connection].config = pool[n].config

\* C3 witness: a reconnect, after the clock has advanced, has just stored an
\* entry whose config is not spelled as its hash spells it.
C3_Witness ==
  /\ ret # NoRet
  /\ ret.res.reconnected
  /\ has(ret.server)
  /\ pool[ret.server].config # sortObjectKeys(pool[ret.server].config)
  /\ now > 0

\* C4 as stated: connectToServer is never in flight twice for one server name.
C4_SingleFlight ==
  \A r1, r2 \in Slots :
    (r1 # r2 /\ req[r1].pc = "acq_connecting" /\ req[r2].pc = "acq_connecting")
      => req[r1].server # req[r2].server

\* C5 as stated: at most one handler is between its start and its reply, and
\* no release of the idle timer is under way while one is.
C5_Serialized ==
  /\ Cardinality({r \in Slots : InFlight(r)}) <= 1
  /\ (\E r \in Slots : InFlight(r)) => bg = EmptyBag

\* C6: a disconnect that found the entry replies ok = true once close has been
\* invoked on the entry's session and has settled, and has(server) is then
\* false; a disconnect that found no entry replies ok = false and changes no
\* entry and no session.
C6_Release ==
  [][(last'.method = "disconnect" /\ last'.reply.status = 200) =>
       IF last'.reply.ok
         THEN /\ last'.old # 0
              /\ last'.server \notin DOMAIN pool'
              /\ sessions'[last'.old].status = "closed"
         ELSE /\ last'.server \notin DOMAIN pool
              /\ pool' = pool
              /\ SessionsUntouched]_vars

\* C6 witness: a disconnect has just removed an entry while another stays.
C6_Witness ==
  /\ last.method = "disconnect"
  /\ last.reply.status = 200
  /\ last.reply.ok
  /\ ~has(last.server)
  /\ size = 1

\* C7: when releaseAll has completed the pool is empty, close has been invoked
\* on every session that was held when it was called, the list returned is
\* the set of names held then, and the idle timer is stopped.
C7_ReleaseAll ==
  (last.method = "shutdown" /\ last.reply.status = 200) =>
    /\ size = 0
    /\ \A n \in Names : ~has(n)
    /\ \A s \in last.closing : sessions[s].status = "closed"
    /\ last.reply.servers = last.names
    /\ last.names = {sessions[s].server : s \in last.closing}
    /\ Cardinality(last.names) = Cardinality(last.closing)
    /\ ~idleTimer
    /\ ~timerDue

\* C7 witness: releaseAll has just completed for two servers.
C7_Witness ==
  /\ last.method = "shutdown"
  /\ last.reply.status = 200
  /\ Cardinality(last.reply.servers) = 2

\* C8 as stated: no entry has(name) and list() report, and no session acquire
\* returns, is one close has been invoked on.
C8_ClosedUnreachable ==
  /\ \A n \in list : has(n) => sessions[pool[n].connection].status = "open"
  /\ ret # NoRet => sessions[ret.res.connection].status = "open"

\* The firing of the idle-check timer.
IdleCheckFires == timerDue /\ ~timerDue' /\ idleTimer' /\ daemonUp'

\* C9: at a firing of the idle-check timer release is started for exactly the
\* entries with now - lastUsed > idleTimeoutMs: close is invoked on their
\* sessions; every other entry, equality included, stays in the pool, its
\* session as it was; and no error of close is ever raised.
C9_IdleThreshold ==
  [][/\ IdleCheckFires =>
          LET idle == {n \in DOMAIN pool : now - pool[n].lastUsed > IdleTimeoutMs}
          IN /\ bg' = bg (+) SetToBag({[server |-> n, connection |-> pool[n].connection] :
                                         n \in idle})
             /\ pool' = pool
             /\ \A n \in idle : sessions'[pool[n].connection].status # "open"
             /\ \A n \in DOMAIN pool \ idle :
                  sessions'[pool[n].connection] = sessions[pool[n].connection]
     /\ ~raised']_vars

\* C9 witness: the timer has evicted one entry and left one that has been idle
\* for exactly the timeout, its session open.
C9_Witness ==
  /\ bg # EmptyBag
  /\ ~timerDue
  /\ \E n \in DOMAIN pool :
       /\ now - pool[n].lastUsed = IdleTimeoutMs
       /\ sessions[pool[n].connection].status = "open"
       /\ \A t \in BagToSet(bg) : t.server # n

\* C10: when stopDaemon without --force has read a list of more than one
\* server it exits with a non-zero code; it sends no shutdown request, the
\* daemon keeps running and every entry and session is as it was.
C10_SafeStop ==
  [][(stop.pc = "listed" /\ ~stop.force /\ Cardinality(stop.servers) > 1
        /\ stop' # stop)
       => /\ stop'.pc = "exited"
          /\ stop'.exitCode # 0
          /\ req' = req
          /\ pool' = pool
          /\ SessionsUntouched
          /\ daemonUp' = daemonUp
          /\ exitArmed' = exitArmed]_vars

\* C10 witness: stopDaemon has exited with code 1 and the daemon runs on with
\* its two servers.
C10_Witness ==
  /\ stop.pc = "exited"
  /\ stop.exitCode = 1
  /\ daemonUp
  /\ ~exitArmed
  /\ size = 2
  /\ \A n \in DOMAIN pool : sessions[pool[n].connection].status = "open"

\* C11 as stated, in the timing most favourable to it: when stopDaemon
\* --force, against a daemon that held two or more servers, returns after the
\* daemon process has exited, the socket file no longer exists.
C11_ForcedStop ==
  [][(stop.pc = "poll" /\ stop.force /\ Cardinality(stop.servers) >= 2
        /\ stop'.pc = "done" /\ ~daemonUp)
       => ~socket']_vars

\* C12: a shutdown request takes the names of all entries and invokes close on
\* every one of their sessions; when the reply is produced those sessions are
\* closed, the pool is empty, the reply's servers are the names taken, the
\* exit timer is armed and the process is alive; the timer is armed only in
\* the step that produces the reply, and the process exits only by that timer.
C12_ShutdownOrder ==
  [][/\ \A r \in Slots :
          (req'[r].pc = "relall_closing" /\ req[r].pc # "relall_closing")
            => /\ req'[r].names = DOMAIN pool
               /\ req'[r].closing = {pool[n].connection : n \in DOMAIN pool}
               /\ \A s \in req'[r].closing : sessions'[s].status # "open"
     /\ (last'.method = "shutdown" /\ last'.reply.status = 200)
          => /\ pool' = << >>
             /\ \A s \in last'.closing : sessions'[s].status = "closed"
             /\ last'.reply.servers = last'.names
             /\ exitArmed'
             /\ daemonUp'
     /\ (exitArmed' /\ ~exitArmed) => last'.method = "shutdown"
     /\ (daemonUp /\ ~daemonUp') => (exitArmed /\ last' = NoLast)]_vars

\* C12 witness: the reply to shutdown has just been produced for both
\* servers; the exit timer is armed and the process has not exited.
C12_Witness ==
  /\ last.method = "shutdown"
  /\ last.reply.status = 200
  /\ last.reply.servers = Names
  /\ exitArmed
  /\ daemonUp
  /\ pool = << >>

\* C13 as stated: the socket file of a live daemon is never deleted, neither
\* by startDaemon nor by a starting daemon that binds over it.
C13_OneDaemon == overrun = 0

\* The startDaemon process i takes a step.
StarterSteps(i) == starter'[i] # starter[i]

\* C14: isDaemonRunning is true only if the socket file exists and the daemon
\* answers; with a socket file and no daemon behind it startDaemon finds it
\* false, and its next step removes the file and spawns a daemon.
C14_Probe ==
  [][\A i \in Starters :
       /\ (StarterSteps(i) /\ starter'[i] \in {"already", "started"})
            => (socket /\ daemonUp)
       /\ (StarterSteps(i) /\ starter[i] = "idle" /\ socket /\ ~daemonUp)
            => starter'[i] = "spawn"
       /\ (StarterSteps(i) /\ starter[i] = "spawn")
            => (~socket' /\ spawned' = spawned + 1)]_vars

\* C14 witness: startDaemon has found a stale socket file, removed it and
\* spawned a daemon, which has not bound the socket yet.
C14_Witness ==
  /\ \E i \in Starters : starter[i] = "sleep"
  /\ ~socket
  /\ ~daemonUp
  /\ spawned = 1
  /\ stop.pc = "done"

\* C15: a body that is not JSON gets 400 "invalid JSON"; connect without
\* server or config, call without server, config or tool, disconnect and has
\* without server, and an unknown method get 400; an exception thrown while
\* handling gets 500 with its message; and a step that replies 400 leaves the
\* pool, the handlers in flight and every session as they were.
C15_ErrorReplies ==
  [][/\ \A b \in Bodies :
          /\ b.json = "invalid" => Validate(b) = [status |-> 400, error |-> "invalid JSON"]
          /\ ( /\ b.json = "object"
               /\ \/ b.method = "connect" /\ (~b.server \/ ~b.config)
                  \/ b.method = "call" /\ (~b.server \/ ~b.config \/ ~b.tool)
                  \/ b.method \in {"disconnect", "has"} /\ ~b.server
                  \/ b.method = "bogus" )
               => Validate(b).status = 400
     /\ (last' # NoLast /\ last'.reply.status = 400)
          => /\ pool' = pool
             /\ req' = req
             /\ bg' = bg
             /\ SessionsUntouched
     /\ \A r \in Slots :
          (req[r].pc \in {"acq_connecting", "calling"} /\ req'[r].pc = "idle"
             /\ ret' = NoRet /\ last'.reply.status # 200)
            => last'.reply = [status |-> 500, error |-> "message"]]_vars

\* C15 witness: a call without its tool has just been refused while the pool
\* holds a server.
C15_Witness ==
  /\ last.method = "call"
  /\ last.reply = [status |-> 400, error |-> "missing server, config, or tool"]
  /\ size = 1

\* C16: the array processWithConcurrency returns has one element per item,
\* and its i-th element is the result of the processor for the i-th item and
\* index i, whatever the limit and the order in which the processors ended.
C16_OrderPreserved ==
  run.pc = "returned" =>
    /\ Len(run.results) = Len(run.items)
    /\ \A i \in DOMAIN run.items :
         /\ run.results[i] # EmptySlot
         /\ run.results[i].name = run.items[i]
         /\ run.results[i].index = i
         /\ run.results[i] = ProcResult(run.items[i], i, run.outcome[i])

\* C16 witness: three items under a limit of two have been returned, the
\* first of them ended last.
C16_Witness ==
  /\ run.pc = "returned"
  /\ Len(run.items) = 3
  /\ run.maxConcurrency = 2
  /\ run.workers[1].index = 1
  /\ run.workers[2].index = 3

\* The processor invocations in flight.
InFlightCount == Cardinality({w \in DOMAIN run.workers : Busy(run.workers[w])})

\* C17: min(C, N) workers are started, none for no items, which returns at
\* once; at most min(C, N) processors are in flight; no index is handed out
\* twice, and all have been when the Runner returns; and the Runner has
\* returned exactly when every index is handed out and no processor is in
\* flight.
C17_BoundedConcurrency ==
  run # IdleRun =>
    LET n == Len(run.items)
        k == IF run.maxConcurrency <= n THEN run.maxConcurrency ELSE n
    IN /\ Len(run.workers) = k
       /\ InFlightCount <= k
       /\ n = 0 => (run.pc = "returned" /\ run.results = << >>)
       /\ \A i \in 1 .. n : run.handed[i] <= 1
       /\ \A i \in 1 .. n : run.handed[i] = 1 <=> i <= run.currentIndex
       /\ run.pc = "returned" <=>
            (InFlightCount = 0 /\ \A i \in 1 .. n : run.handed[i] = 1)

\* C17 witness: three items under a limit of two: two processors in flight,
\* the third item handed out, its predecessor done.
C17_Witness ==
  /\ run.pc = "running"
  /\ Len(run.items) = 3
  /\ run.maxConcurrency = 2
  /\ InFlightCount = 2
  /\ run.handed[3] = 1

\* C18: an item whose connect or listTools failed has, at its own index, a
\* result with the error set and no tools; an item that did not fail has its
\* tools and no error; a worker stops only when no item is left; and no
\* error leaves the Runner.
C18_Isolation ==
  run # IdleRun =>
    /\ run.pc # "threw"
    /\ \A i \in DOMAIN run.items :
         /\ run.outcome[i] \in {"connect", "list"}
              => /\ run.results[i].error # "none"
                 /\ run.results[i].tools = << >>
                 /\ run.results[i].name = run.items[i]
         /\ run.outcome[i] = "ok"
              => /\ run.results[i].error = "none"
                 /\ run.results[i].tools = ToolsOf(run.items[i])
         /\ run.outcome[i] = "none" => run.results[i] = EmptySlot
    /\ \A w \in DOMAIN run.workers :
         ~Busy(run.workers[w]) => run.currentIndex = Len(run.items)

\* C18 witness: one worker has run three items; listTools failed for the
\* second, connect for none, and the first and third have their tools.
C18_Witness ==
  /\ run.pc = "returned"
  /\ run.maxConcurrency = 1
  /\ Len(run.items) = 3
  /\ run.outcome = << "ok", "list", "ok" >>
  /\ run.results[3].tools # << >>

\* The operation was invoked in this step, and not for the first time.
InvokedAgain == retry.pc = "loop" /\ retry'.pc = "calling" /\ retry.calls > 0

\* The operation failed in this step.
FnFailed == retry.pc = "calling" /\ retry'.pc \in {"sleeping", "thrown"}

\* C19: withRetry invokes the operation again after a failure only if at the
\* failure an attempt remained (attempt < maxRetries), the error was
\* transient and more than 1000 ms of the total budget remained; the sleep
\* before that invocation was at most remainingBudget - 1000 ms.  If the
\* budget is consumed when the first invocation fails, withRetry throws that
\* invocation's error and the operation has been invoked once.
C19_RetryGuard ==
  [][ /\ InvokedAgain =>
           /\ retry.attempt - 1 < retry.config.maxRetries
           /\ isTransientError(retry.lastError)
           /\ retry.lastError.by = retry.calls
           /\ retry.remainingBudget > 1000
           /\ retry.delay <= retry.remainingBudget - 1000
           /\ retry.sleeps = retry.calls
      /\ (FnFailed /\ retry'.pc = "sleeping") =>
           /\ retry.attempt < retry.config.maxRetries
           /\ isTransientError(retry'.lastError)
           /\ retry'.remainingBudget = retry.config.totalBudgetMs - retry'.elapsed
           /\ retry'.remainingBudget > 1000
           /\ retry'.delay <= retry'.remainingBudget - 1000
      /\ (FnFailed /\ retry.calls = 1
            /\ retry'.elapsed >= retry.config.totalBudgetMs) =>
           /\ retry'.pc = "thrown"
           /\ retry'.thrown = retry'.lastError
           /\ retry'.thrown.by = 1
           /\ retry'.calls = 1
           /\ retry'.sleeps = 0
    ]_vars

\* A third invocation has followed a sleep that the remaining budget cut
\* short.
C19_Witness ==
  /\ retry.pc = "calling"
  /\ retry.calls = 3
  /\ isTransientError(retry.lastError)
  /\ retry.delay = retry.remainingBudget - 1000
  /\ retry.delay < retry.config.maxDelayMs
  /\ retry.delay > 0

\* withRetry has ended, by returning or by throwing.
RetryEnded == retry.pc \in {"returned", "thrown"}

\* C20: withRetry invokes the operation at most maxRetries + 1 times and then
\* ends; an error that is not transient is thrown in the step of the
\* invocation that raised it, with no sleep and no further invocation; the
\* error thrown when the retries are exhausted, as whenever withRetry throws,
\* is the one the last invocation raised; with maxRetries = 0 the operation
\* is invoked exactly once.
C20_RetryTermination ==
  /\ [](retry # IdleRetry =>
          /\ retry.calls <= retry.config.maxRetries + 1
          /\ retry.pc = "thrown" =>
               /\ retry.calls >= 1
               /\ retry.thrown = retry.lastError
               /\ retry.thrown.by = retry.calls
          /\ (RetryEnded /\ retry.config.maxRetries = 0) => retry.calls = 1)
  /\ [][ /\ (FnFailed /\ retry'.lastError.code \notin transientCodes
               /\ ~MatchesTransientPattern(retry'.lastError.message)) =>
              /\ retry'.pc = "thrown"
              /\ retry'.thrown = retry'.lastError
              /\ retry'.thrown.by = retry.calls
              /\ retry'.sleeps = retry.sleeps
              /\ retry'.elapsed - retry.elapsed \in Durations
         /\ RetryEnded => retry' = retry
       ]_vars
  /\ (retry # IdleRetry) ~> RetryEnded

\* The retries were exhausted by transient errors with budget to spare, and
\* the last one was thrown.
C20_Witness ==
  /\ retry.pc = "thrown"
  /\ retry.config.maxRetries = MaxRetries
  /\ retry.calls = MaxRetries + 1
  /\ isTransientError(retry.thrown)
  /\ retry.sleeps = MaxRetries
  /\ retry.elapsed < retry.config.totalBudgetMs - 1000

\* The size of the pool before the acquire, or the release, that ends in this
\* step: the one in progress, or else one that starts now.
SizeBefore ==
  IF req[1].pc \in {"acq_closing", "acq_connecting", "rel_closing"}
    THEN req[1].sizeBefore
    ELSE size

\* acquire returns in this step.
AcquireReturns == ret' # NoRet

\* acquire throws in this step.
AcquireThrows ==
  /\ req[1].pc \in {"acq_closing", "acq_connecting"}
  /\ req'[1].pc = "idle"
  /\ last' # NoLast
  /\ last'.reply = Reply500

\* release returns in this step.
ReleaseReturns == last' # NoLast /\ last'.method = "disconnect"

\* C27 as stated: with calls made one at a time, an acquire that returns or
\* throws leaves the pool with no fewer entries than before the call, a
\* release with no more, and size() is the number of entries.
C27_SizeMonotonic ==
  [][ /\ (AcquireReturns \/ AcquireThrows) => size' >= SizeBefore
      /\ ReleaseReturns => size' <= SizeBefore
      /\ size' = Cardinality(list')
    ]_vars

\* C27 amended: an acquire that returns leaves the pool with no fewer entries
\* than before the call and with an entry for its server; an acquire that
\* throws leaves the pool as it was, unless it found an entry whose hash
\* differed: then that entry is gone and the others are as they were; a
\* release leaves no more entries than before; size() is their number.
C27_SizeAfterCall ==
  [][ /\ AcquireReturns =>
           /\ size' >= SizeBefore
           /\ ret'.server \in DOMAIN pool'
      /\ AcquireThrows =>
           /\ size' = IF req[1].old # 0 THEN SizeBefore - 1 ELSE SizeBefore
           /\ req[1].old # 0 => req[1].server \notin DOMAIN pool'
           /\ \A n \in DOMAIN pool' : n \in DOMAIN pool /\ pool'[n] = pool[n]
      /\ ReleaseReturns =>
           /\ size' <= SizeBefore
           /\ size' >= SizeBefore - 1
      /\ size' = Cardinality(list')
    ]_vars

\* A connect that found the entry of its server under another hash has
\* failed; the entry is gone and the other server's entry is left.
C27_Witness ==
  /\ last # NoLast
  /\ last.method = "connect"
  /\ last.reply = Reply500
  /\ last.old # 0
  /\ ~has(last.server)
  /\ size = 1

\* The value of a string of digits, place by place.
RECURSIVE Power10(_)
Power10(n) == IF n = 0 THEN 1 ELSE 10 * Power10(n - 1)

RECURSIVE PlaceSum(_, _)
PlaceSum(t, i) ==
  IF i > Len(t) THEN 0
  ELSE DigitValue(t[i]) * Power10(Len(t) - i) + PlaceSum(t, i + 1)

AllDigits(t) == t # << >> /\ \A i \in 1 .. Len(t) : t[i] \in Digits

\* C28: getConcurrencyLimit returns the integer MCP_CONCURRENCY spells when
\* that is greater than 0, and 5 when the variable is unset, empty, zero,
\* negative or not a number; the value is at least 1, so a batch that is not
\* empty starts at least one worker.
C28_ConcurrencyLimit ==
  applied.fn = "getConcurrencyLimit" =>
    LET env == applied.arg
        t == env.text
    IN /\ applied.value \in Nat
       /\ applied.value >= 1
       /\ \A n \in 1 .. MaxItems : WorkerCount(applied.value, n) >= 1
       /\ (~env.set \/ t = << >>) => applied.value = 5
       /\ AllDigits(t) =>
            applied.value = IF PlaceSum(t, 1) > 0 THEN PlaceSum(t, 1) ELSE 5
       /\ (env.set /\ Len(t) >= 2 /\ Head(t) = "+" /\ AllDigits(Tail(t))) =>
            applied.value = IF PlaceSum(Tail(t), 1) > 0 THEN PlaceSum(Tail(t), 1) ELSE 5
       /\ (env.set /\ t # << >> /\ Head(t) = "-") => applied.value = 5
       /\ (env.set /\ t # << >> /\ \A i \in 1 .. Len(t) : t[i] \notin Digits) =>
            applied.value = 5

\* MCP_CONCURRENCY=0 has given the default.
C28_Witness ==
  /\ applied.fn = "getConcurrencyLimit"
  /\ applied.arg.set
  /\ applied.arg.text = << "0" >>
  /\ applied.value = 5

\* Two values are the same but for the order in which the keys of their
\* objects are written, at any depth.
RECURSIVE SameButKeyOrder(_, _)
SameButKeyOrder(a, b) ==
  /\ a.t = b.t
  /\ CASE a.t = "str" -> a.s = b.s
       [] a.t = "arr" ->
            /\ Len(a.items) = Len(b.items)
            /\ \A i \in 1 .. Len(a.items) : SameButKeyOrder(a.items[i], b.items[i])
       [] a.t = "obj" ->
            /\ Len(a.items) = Len(b.items)
            /\ \A i \in 1 .. Len(a.items) :
                 \E j \in 1 .. Len(b.items) :
                   /\ a.items[i].k = b.items[j].k
                   /\ SameButKeyOrder(a.items[i].v, b.items[j].v)

\* C29: computeConfigHash gives one value per config, the same value for two
\* configs that differ only in the order of object keys at any depth,
\* different values for two configs that differ otherwise (in a value, or in
\* the order of an array), and 16 hex characters; and an acquire with a
\* key-reordered copy of the stored config returns the stored session
\* without connecting.
C29_HashStable ==
  /\ [](applied.fn = "computeConfigHash" =>
          LET c1 == applied.arg[1]
              c2 == applied.arg[2]
              h1 == applied.value[1]
              h2 == applied.value[2]
          IN /\ h1 = HashOf(c1)
             /\ h2 = HashOf(c2)
             /\ c1 = c2 => h1 = h2
             /\ SameButKeyOrder(Obj(c1), Obj(c2)) => h1 = h2
             /\ ~SameButKeyOrder(Obj(c1), Obj(c2)) => h1 # h2
             /\ h1.length = 16
             /\ h2.length = 16)
  /\ [][\A n \in Names, c \in ReorderedConfigs :
         ( /\ AcquireCalled(n, c)
           /\ has(n)
           /\ SameButKeyOrder(Obj(pool[n].config), Obj(c)) )
         => /\ ret' # NoRet
            /\ ret'.res = [connection |-> pool[n].connection,
                           alreadyConnected |-> TRUE, reconnected |-> FALSE]
            /\ ~ConnectInvoked
            /\ SessionsUntouched]_vars

\* Two configs that differ in the order of the keys of the config, of env and
\* of the object in args have been given one hash.
C29_Witness ==
  /\ applied.fn = "computeConfigHash"
  /\ applied.arg[1] = Spelled("args", ObjAB, ObjAB)
  /\ applied.arg[2] = Spelled("env", ObjBA, ObjBA)
  /\ applied.value[1] = applied.value[2]

\* C21 as stated: callTool is invoked again only after a failure that was not
\* a response of the server; a call the server has answered, with a result
\* or with an error, is not sent again.
C21_NoReexecution ==
  [][InvokedAgain => ~retry.lastError.response]_vars

\* The error is one of those the claim names as not transient: EACCES,
\* ENOENT, a 401 or 403 status, a validation error.
NonTransientKind(e) ==
  \/ e.code \in {"EACCES", "ENOENT"}
  \/ StartsWithStatus(e.message, {"401", "403"})
  \/ NamesStatus(e.message, {"401", "403"})
  \/ HasWord(e.message, "invalid")

\* The error is one of those the claim names as transient.
TransientKind(e) ==
  \/ e.code \in { "ECONNREFUSED", "ECONNRESET", "ETIMEDOUT", "ENOTFOUND",
                   "EPIPE", "ENETUNREACH", "EHOSTUNREACH", "EAI_AGAIN" }
  \/ StartsWithStatus(e.message, {"429", "502", "503", "504"})
  \/ NamesStatus(e.message, {"429", "502", "503", "504"})
  \/ FollowedBy(e.message, "network", {"error", "unavailable", "timeout"})
  \/ FollowedBy(e.message, "connection", {"refused", "timeout"})
  \/ HasWord(e.message, "timeout")

\* C30 as stated: isTransientError is false for every error of a kind that
\* is not transient, whatever else its message contains, and true for every
\* other error with a transient code, status or pattern.  (An error of a
\* kind that is not transient which also carries a transient code is held to
\* neither.)
C30_Classification ==
  applied.fn = "isTransientError" =>
    /\ (NonTransientKind(applied.arg) /\ applied.arg.code \notin transientCodes)
         => applied.value = FALSE
    /\ (TransientKind(applied.arg) /\ ~NonTransientKind(applied.arg))
         => applied.value = TRUE

\* ------------------------------------------------ mcpx call: properties
\* The target of the call is disabled: a disabled-tool pattern matches it, or
\* the filter of its server's config rejects the tool.
Disabled(c) ==
  \/ \E p \in c.patterns : globMatch(p, ToolPath(c.server, c.tool))
  \/ ~isToolAllowedByServerConfig(c.tool, c.filter)

\* C22: a call whose target is matched by a disabled-tool pattern or rejected
\* by the server's includeTools/allowedTools/disabledTools has exited with
\* code 1 without a connectToServer call and without a request to the daemon.
C22_DisabledRefused ==
  (call # IdleCall /\ Disabled(call)) =>
    /\ call.pc = "exited"
    /\ call.exitCode = CLIENT_ERROR
    /\ call.connects = 0
    /\ call.sent = << >>
    /\ call.session = "none"

\* A call of a/read was refused for the pattern */*, and one of a tool that
\* only the server's filter rejects would be refused too.
C22_Witness ==
  /\ call # IdleCall
  /\ call.pc = "exited"
  /\ call.kind = "disabled"
  /\ call.patterns = {<< "*", "/", "*" >>}
  /\ call.known /\ call.argsOk
  /\ isToolAllowedByServerConfig(call.tool, call.filter)

\* C23: a call that is not routed through the daemon and whose
\* connectToServer succeeded has invoked the session's close when the process
\* exits, whether callTool succeeded or failed.
C23_ClosedOnExit ==
  (call # IdleCall /\ call.pc = "exited" /\ call.session # "none") =>
    call.closeInvoked

\* The call request was sent to the daemon.
ViaDaemon(c) == \E i \in DOMAIN c.sent : c.sent[i] = "call"

\* The call has chosen its route.
Routed(c) == c.pc \notin {"idle", "probing", "probed"}

\* isServerInDaemon gets the daemon's answer.
Answered == call # IdleCall /\ call.pc = "probing" /\ call'.pc = "probed"

\* C24: the call goes through the daemon exactly when the socket file was
\* there and the daemon answered has with true, and the answer is true
\* exactly when the pool holds the server; a call through the daemon makes
\* no connectToServer call, a call that connects sends no call request.
C24_Routing ==
  /\ [](Routed(call) =>
          /\ ViaDaemon(call) <=> call.has = "yes"
          /\ ViaDaemon(call) => call.connects = 0 /\ call.session = "none"
          /\ call.connects > 0 => ~ViaDaemon(call))
  /\ [][Answered => /\ socket
                    /\ call'.has = "yes" <=> call.server \in DOMAIN pool]_vars

\* A call went through the daemon and got its result.
C24_Witness ==
  /\ call # IdleCall
  /\ call.pc = "exited"
  /\ call.has = "yes"
  /\ call.sent = << "has", "call" >>
  /\ call.reply.status = 200
  /\ call.exitCode = 0

\* The session to the target server could not be established: the call's
\* own connectToServer threw, or the connectToServer of the daemon's acquire
\* did and the daemon replied with the error.
ConnectFailed(c) ==
  \/ ~ViaDaemon(c) /\ c.connects > 0 /\ c.session = "none"
  \/ ViaDaemon(c) /\ c.from = "acq_connecting" /\ c.reply.status # 200

\* C25: a call that fails because the session to the server cannot be
\* established exits with code 3, over an ephemeral session and through the
\* daemon alike.
C25_NetworkExit ==
  (call # IdleCall /\ call.pc = "exited" /\ ConnectFailed(call)) =>
    call.exitCode = NETWORK_ERROR

\* The call has ended on an error of callTool.
CallToolFailed(c) ==
  /\ c.pc = "exited"
  /\ c.attempts > 0
  /\ c.kind \in {"execution", "notfound"}

\* The time the call's callTool attempts have taken, as far as it is known.
CallElapsed(c) ==
  IF ViaDaemon(c) THEN {c.attempts * d : d \in CallDurations} ELSE {retry.elapsed}

\* C26: on either path a call gives up on an error of callTool only when the
\* retry policy does: the attempts are used up, the error is not transient,
\* or the budget of MCP_TIMEOUT leaves no second to retry in.
C26_UniformRetry ==
  (call # IdleCall /\ CallToolFailed(call)) =>
    \A retries \in CallRetries, elapsed \in CallElapsed(call) :
      LET config == getRetryConfig(CallTimeoutSeconds, retries, CallRetryDelay)
      IN ~ShouldRetry([attempt |-> call.attempts - 1, config |-> config],
                      call.error, config.totalBudgetMs - elapsed)

\* ------------------------------------------------ calculateDelay: properties
\* min(base * 2^n, maxDelay) for the delay just computed.
CappedDelay ==
  Min(applied.config.baseDelayMs * Pow2(applied.attempt), applied.config.maxDelayMs)

\* C31: the delay calculateDelay returns lies between 0.75 and 1.25 times
\* min(base * 2^n, maxDelay), for every attempt, base, maxDelay and draw.
C31_DelayBounds ==
  applied.fn = "calculateDelay" =>
    /\ 3 * CappedDelay <= 4 * applied.value
    /\ 4 * applied.value <= 5 * CappedDelay

\* ------------------------------------------------ the pool: further properties
\* acquire returns the session of the entry it found.
Reused == ret' # NoRet /\ ret'.res.alreadyConnected

\* C32: an acquire that reuses an entry changes that entry's lastUsed only,
\* to the time of the call and never backwards; every other field of the
\* entry and every other entry stay, and the session returned, on which a
\* call then runs, is the entry's.
C32_ReuseFrame ==
  [][Reused =>
       LET n == ret'.server
       IN /\ n \in DOMAIN pool
          /\ DOMAIN pool' = DOMAIN pool
          /\ \A m \in DOMAIN pool \ {n} : pool'[m] = pool[m]
          /\ pool'[n] = [pool[n] EXCEPT !.lastUsed = now]
          /\ pool'[n].lastUsed >= pool[n].lastUsed
          /\ ret'.res.connection = pool[n].connection
          /\ \A r \in Slots :
               req'[r].pc = "calling" /\ req[r].pc = "idle"
                 => req'[r].res.connection = pool'[n].connection]_vars

\* A call has just reused an entry started earlier: lastUsed has advanced,
\* startedAt has not.
C32_Witness ==
  /\ ret # NoRet
  /\ ret.res.alreadyConnected
  /\ ret.server \in DOMAIN pool
  /\ pool[ret.server].lastUsed > pool[ret.server].startedAt
  /\ \E r \in Slots : req[r].pc = "calling" /\ req[r].server = ret.server

\* ------------------------------------------------ list and grep: sessions
\* C33: for every server of a list or grep whose connectToServer succeeded,
\* close has been invoked once, and has settled, when the server's result is
\* recorded, whether listTools returned or threw; it is never invoked twice,
\* and never without a session; when the Runner returns no session of the
\* batch is open.
C33_BatchClosed ==
  run # IdleRun =>
    \A i \in DOMAIN run.items :
      /\ run.closes[i] <= 1
      /\ run.sess[i] = "none" => run.closes[i] = 0
      /\ (run.results[i] # EmptySlot /\ run.sess[i] # "none")
           => run.closes[i] = 1 /\ run.sess[i] = "closed"
      /\ run.pc = "returned" => run.sess[i] \in {"none", "closed"}

\* A batch of three has returned: listTools threw for the first server and
\* returned for the second, both sessions are closed; the third never
\* connected.
C33_Witness ==
  /\ run # IdleRun
  /\ run.pc = "returned"
  /\ run.outcome = << "list", "ok", "connect" >>
  /\ run.closes = << 1, 1, 0 >>
  /\ run.sess = << "closed", "closed", "none" >>

\* ------------------------------------------------ the pool: who fills it
\* The handler of slot r stores an entry for n in this step.
Stores(r, n) ==
  /\ req[r].pc = "acq_connecting"
  /\ req[r].server = n
  /\ n \in DOMAIN pool'

\* C34: an entry for a server that was not in the pool is stored only by the
\* handler of a connect request; the handler of a call request stores one
\* only for a server that was in the pool when the call was handled (and
\* whose session it replaced).
C34_OnlyConnectAdds ==
  [][\A n \in DOMAIN pool' \ DOMAIN pool :
       \E r \in Slots :
         /\ Stores(r, n)
         /\ req[r].method = "connect" \/ req[r].old # 0]_vars

\* ------------------------------------------------ introspection
\* A has, list or list-detailed request is answered in this step.
Introspected == last'.method \in {"has", "list", "list-detailed"}

\* The sessions and what has become of them, closed sessions nothing refers
\* to any more left out.
Open(sess) == {[id |-> i, status |-> sess[i].status] :
                 i \in {j \in DOMAIN sess : sess[j].status # "closed"}}

\* C35: a has, list or list-detailed request leaves the pool as it is, entries
\* and their lastUsed and startedAt included, opens and closes no session,
\* starts no release and leaves the idle timer and its clock alone; the
\* idleSeconds list-detailed reports are floor((now - lastUsed) / 1000) and
\* not negative; has reports pool.has and list the pool's names.
C35_ReadOnly ==
  [][Introspected =>
       /\ pool' = pool
       /\ Open(sessions') = Open(sessions)
       /\ req' = req /\ bg' = bg
       /\ now' = now /\ idleTimer' = idleTimer /\ timerDue' = timerDue
       /\ last'.method = "has" => last'.reply.has = (last'.server \in DOMAIN pool)
       /\ last'.method = "list" => last'.reply.servers = DOMAIN pool
       /\ last'.method = "list-detailed" =>
            /\ {d.name : d \in last'.reply.serversDetailed} = DOMAIN pool
            /\ \A d \in last'.reply.serversDetailed :
                 /\ d.idleSeconds >= 0
                 /\ d.idleSeconds * 1000 <= (now - pool[d.name].lastUsed) * TimerPeriodMs
                 /\ (d.idleSeconds + 1) * 1000 > (now - pool[d.name].lastUsed) * TimerPeriodMs]_vars

\* list-detailed has just reported an entry idle for two timer periods, past
\* the idle timeout, with the idle check due.
C35_Witness ==
  /\ last.method = "list-detailed"
  /\ timerDue
  /\ \E d \in last.reply.serversDetailed :
       /\ d.idleSeconds = (2 * TimerPeriodMs) \div 1000
       /\ d.name \in DOMAIN pool
       /\ IsIdle(now, pool[d.name])

\* ------------------------------------------------ idle eviction
\* The entry of n holds session c and was last used so long ago that the
\* clock reaches a firing of the idle check at which it is idle.
Lingers(n, c) ==
  /\ n \in DOMAIN pool
  /\ pool[n].connection = c
  /\ pool[n].lastUsed + IdleTimeoutMs < MaxTime

\* Session c is not open.
NotOpen(c) == c \in DOMAIN sessions => sessions[c].status # "open"

Calling(r) == req[r].pc = "calling"

\* C37: a firing of the idle check invokes close on no session on which a
\* call handler is awaiting callTool.
C37_NoEvictionInFlight ==
  [][IdleCheckFires =>
       \A r \in Slots :
         Calling(r) /\ sessions[req[r].res.connection].status = "open"
           => /\ req[r].res.connection \in DOMAIN sessions'
              /\ sessions'[req[r].res.connection].status = "open"]_vars

\* ------------------------------------------------ stop without --force
\* The sessions on which this step invokes close.
TornDown ==
  {c \in DOMAIN sessions :
     /\ sessions[c].status = "open"
     /\ c \in DOMAIN sessions' => sessions'[c].status # "open"}

\* The shutdown request of a stop without --force is handled in this step.
PlainShutdownHandled == stop.pc = "shutdown" /\ ~stop.force /\ stop'.pc = "waiting"

\* C38: the shutdown that a stop without --force asks for invokes close on
\* at most one session.
C38_AtMostOneTornDown ==
  [][PlainShutdownHandled => Cardinality(TornDown) <= 1]_vars

\* ------------------------------------------------ pooled sessions at rest
\* No acquire, release or releaseAll is suspended at an await, and no
\* release started by the idle timer is under way.
PoolAtRest ==
  /\ \A r \in Slots : req[r].pc \in {"idle", "calling"}
  /\ bg = EmptyBag

\* The names whose entry holds session c.
Holders(c) == {n \in DOMAIN pool : pool[n].connection = c}

\* C39: with no pool operation in progress, an open session is the session
\* of exactly one entry, and the session of an entry is open.
C39_NoLeak ==
  PoolAtRest =>
    \A c \in DOMAIN sessions :
      /\ sessions[c].status = "open" => Cardinality(Holders(c)) = 1
      /\ Holders(c) # {} => sessions[c].status = "open"

\* ------------------------------------------------ requests during shutdown
\* The deferred exit of the shutdown handler runs in this step.
Exits == daemonUp /\ ~daemonUp'

\* C40: when the process exits after a shutdown, the pool that releaseAll
\* cleared holds no entry whose session is open: no request handled after
\* the shutdown began has left a session that dies unclosed.
C40_NothingOpenedLate ==
  [][Exits => \A n \in DOMAIN pool :
                sessions[pool[n].connection].status # "open"]_vars

====
